---------------------------- MODULE Spec2Model ----------------------------
(***************************************************************************)
(* A model of the ironsight client library: the framer (frame.rs), the     *)
(* connection (conn.rs), the sequencer (seq.rs) and the message decoders   *)
(* (protocol/).                                                           *)
(*                                                                         *)
(* The module holds ten specifications over one set of variables; each   *)
(* one drives one layer and parks the variables of the other layers:       *)
(*   SpecCodec  RawFrame::encode / RawFrame::parse on drawn frames         *)
(*   SpecSplit  FrameSplitter::feed on drawn byte streams, cut in chunks   *)
(*   SpecConn   Connection::recv / recv_timeout over a TCP byte stream     *)
(*   SpecSeq    the sequencer's primitives and phase functions             *)
(*   SpecMsg    Message::decode on drawn RawFrames                         *)
(*   SpecObs    Connection::send and recv with both observers registered   *)
(*   SpecFlip   RawFrame::parse on frames with a changed checksum byte     *)
(*   SpecAddr   RawFrame::parse on frames with any address bytes           *)
(*   SpecNum    the field writers and readers of codec.rs                  *)
(*   SpecSum    RawFrame::encode / parse on frames with a large byte sum   *)
(* Bytes are the naturals 0..255.  Offsets keep the 0-based values of the  *)
(* source; sequences are 1-based, so s[i] of the source is s[i + 1] here.  *)
(***************************************************************************)
EXTENDS Integers, Sequences, FiniteSets, TLC

VARIABLES
    \* --- codec layer (SpecCodec)
    fr_in,        \* the RawFrame handed to encode
    fr_hdr,       \* SpecAddr: the destination and source bytes a sender put
                  \* in the frame it wrote (<<>> when encode made the bytes)
    fr_wire,      \* the bytes encode returned
    fr_out,       \* what parse returned for fr_wire
    c_pc,         \* "start", "encoded", "parsed"; "flipped" and "parsed_flipped"
                  \* when a byte of fr_wire was changed; "panicked" when a
                  \* checked sum overflowed ("off" when parked)
    \* --- splitter layer (SpecSplit)
    s_rest,       \* bytes of the drawn stream not fed yet
    s_fed,        \* bytes fed so far
    s_buf,        \* FrameSplitter.buf
    s_last,       \* the frames the last feed call returned
    s_emitted,    \* the frames all feed calls returned, in order
    s_exp,        \* the wire frames the stream was built from
    s_garbage,    \* the bytes put before the first frame of the stream
    s_calls,      \* the number of feed calls made
    \* --- connection layer (SpecConn)
    k_sent,       \* the RawFrames the device wrote, in wire order
    k_out,        \* bytes the device wrote that have not reached the socket yet
    k_sock,       \* bytes that reached the socket and were not read yet
    k_closed,     \* the peer closed the stream (after its last byte)
    k_buf,        \* Connection.splitter.buf
    k_pending,    \* Connection.pending
    k_pc,         \* "idle", or "reading": a recv call blocked in stream.read
    k_timeout,    \* the stream's read timeout; 0 is None (block for ever)
    k_elapsed,    \* time since the current recv call was entered
    k_read,       \* k_elapsed when the current stream.read was entered
    k_ret,        \* what the last recv call returned, and what its last
                  \* stream.read returned
    k_delivered,  \* the envelopes the recv calls returned, in order
    \* --- sequencer layer (SpecSeq)
    q_fn,         \* the function of seq.rs that was called
    q_np,         \* configure_avr: the number of settings.params
    q_tmo,        \* the timeout the running primitive was given
    q_step,       \* the position in the function: an index of its Script
    q_pc,         \* "idle", "send", "loop" (at a loop head), "got" (recv_timeout
                  \* returned and its result is being looked at), "done"
    q_now,        \* Instant::now(), counted from the entry of the running step
    q_deadline,   \* the deadline of the running primitive; -1 when it has none
    q_result,     \* what the function returned: "Ok" or the ConnError
    q_sent,       \* the conn.send calls made, in order
    q_got,        \* what the last recv_timeout call returned
    q_ret,        \* the envelope the last primitive returned to the function
    q_skips,      \* envelopes the running primitive skipped (counted to MaxSkips)
    q_overran,    \* a recv_timeout call of the running primitive took longer
                  \* than the duration it was given
    q_flags,      \* complete_shot step 3: got_mode_ack, got_config_resp
    q_cal,        \* sync_avr: factory_cal and if_cal ("unset", "Some", "None")
    q_armed,      \* arm: since the ack of AvrConfigCmd{arm} recv_timeout has
                  \* returned a Text with ARMED and without CANCELLED
    \* --- message layer (SpecMsg)
    m_frame,      \* the RawFrame handed to Message::decode
    m_out,        \* what Message::decode returned for m_frame
    m_pc,         \* "start", "decoded" ("off" when parked)
    \* --- field codecs (SpecNum)
    n_kind,       \* the field type: "INT16", ..., "UINT32", "FLOAT40"
    n_off,        \* the offset the field is read at
    n_val,        \* the value handed to the writer ("none" when bytes were drawn)
    n_bytes,      \* the buffer: n_off bytes, then what the writer appended
    n_out,        \* what the reader returned for n_bytes at n_off
    n_pc,         \* "start", "written", "read"; "bytes", "read_raw" when the
                  \* bytes were drawn ("off" when parked)
    \* --- the observers of the connection (SpecObs, SpecConn)
    o_calls,      \* the Connection::send calls made: <<command, destination>>
    o_on_send,    \* the calls of the on-send observer: <<command, destination>>
    o_written,    \* the send calls whose frame was written: indices of o_calls
    o_pc,         \* "idle", or "write": a send call about to write its frame
    o_on_recv     \* the envelopes the on-recv observer was called with

codecVars == <<fr_in, fr_hdr, fr_wire, fr_out, c_pc>>
splitVars == <<s_rest, s_fed, s_buf, s_last, s_emitted, s_exp, s_garbage, s_calls>>
connVars == <<k_sent, k_out, k_sock, k_closed, k_buf, k_pending, k_pc, k_timeout,
              k_elapsed, k_read, k_ret, k_delivered>>
seqVars == <<q_fn, q_np, q_tmo, q_step, q_pc, q_now, q_deadline, q_result, q_sent,
             q_got, q_ret, q_skips, q_overran, q_flags, q_cal, q_armed>>
msgVars == <<m_frame, m_out, m_pc>>
numVars == <<n_kind, n_off, n_val, n_bytes, n_out, n_pc>>
sendVars == <<o_calls, o_on_send, o_written, o_pc>>
obsVars == <<sendVars, o_on_recv>>
vars == <<codecVars, splitVars, connVars, seqVars, msgVars, numVars, obsVars>>

---------------------------------------------------------------------------
(* Bounds of the model.                                                    *)

\* longest payload of a drawn RawFrame
MaxPayload == 4
\* longest drawn raw byte stream (SpecSplit)
MaxRaw == 5
\* longest garbage prefix before the first frame (SpecSplit)
MaxGarbage == 2
\* most frames the device writes (SpecConn)
MaxConnFrames == 2
\* longest timeout handed to recv_timeout, in ticks (SpecConn)
MaxTimeout == 2
\* longest time one recv call is followed, in ticks (SpecConn)
MaxElapsed == 4
\* most settings.params handed to configure_avr (SpecSeq)
MaxParams == 2
\* longest time a conn.send call blocks, in ticks (SpecSeq)
MaxSendDelay == 1
\* longest time a recv_timeout call overruns the duration it was given (SpecSeq)
MaxOverrun == 1
\* skipped envelopes are counted up to this number (SpecSeq)
MaxSkips == 2
\* longest time a loop without a deadline is followed, in ticks (SpecSeq)
MaxSeqClock == 5
\* longest payload of a frame of a decoded type (SpecMsg): one byte more than
\* the longest fixed layout, ClubResult
MaxMsgLen == 168
\* longest payload of the other drawn frames (SpecMsg)
MaxUnknownPayload == 2
\* most frames that arrive (SpecObs)
MaxObsFrames == 3
\* most send calls (SpecObs)
MaxSends == 1
\* longest payload of a frame whose checksum is changed (SpecFlip)
MaxFlipPayload == 1

---------------------------------------------------------------------------
(* addr.rs                                                                 *)

BusAddr == {"App", "Pi", "Avr", "Dsp"}

as_byte(a) ==
    CASE a = "App" -> 16
      [] a = "Pi"  -> 18
      [] a = "Avr" -> 48
      [] a = "Dsp" -> 64

\* mutant of from_byte: the broadcast-looking byte 0xFF is taken for App
from_byteAcceptsFF(b) ==
    CASE b = 16  -> [ok |-> TRUE, addr |-> "App"]
      [] b = 18  -> [ok |-> TRUE, addr |-> "Pi"]
      [] b = 48  -> [ok |-> TRUE, addr |-> "Avr"]
      [] b = 64  -> [ok |-> TRUE, addr |-> "Dsp"]
      [] b = 255 -> [ok |-> TRUE, addr |-> "App"]
      [] OTHER   -> [ok |-> FALSE, err |-> "UnknownBusAddr"]

from_byte(b) ==
    CASE b = 16 -> [ok |-> TRUE, addr |-> "App"]
      [] b = 18 -> [ok |-> TRUE, addr |-> "Pi"]
      [] b = 48 -> [ok |-> TRUE, addr |-> "Avr"]
      [] b = 64 -> [ok |-> TRUE, addr |-> "Dsp"]
      [] OTHER  -> [ok |-> FALSE, err |-> "UnknownBusAddr"]

---------------------------------------------------------------------------
(* frame.rs: byte stuffing, checksum, encode, parse                        *)

START == 240
END == 241
ESC == 253

U16 == 65536

\* the sum of s[lo..hi] as a natural number, added up by halves
RECURSIVE SumRange(_, _, _)
SumRange(s, lo, hi) ==
    IF lo > hi THEN 0
    ELSE IF lo = hi THEN s[lo]
    ELSE LET mid == (lo + hi) \div 2 IN
         SumRange(s, lo, mid) + SumRange(s, mid + 1, hi)

SumBytes(s) == SumRange(s, 1, Len(s))

\* the u16 sum of a byte slice where the additions wrap
Sum16(s) == SumBytes(s) % U16

\* mutant of StuffByte: the start marker is written as it is
StuffByteKeepsStart(b) ==
    CASE b = 241 -> <<ESC, 2>>
      [] b = 253 -> <<ESC, 3>>
      [] b = 250 -> <<ESC, 4>>
      [] OTHER   -> <<b>>

StuffByte(b) ==
    CASE b = 240 -> <<ESC, 1>>
      [] b = 241 -> <<ESC, 2>>
      [] b = 253 -> <<ESC, 3>>
      [] b = 250 -> <<ESC, 4>>
      [] OTHER   -> <<b>>

\* every byte of data[lo..hi] in turn gives its one or two bytes; the halves
\* of the range are stuffed one after the other
RECURSIVE StuffRange(_, _, _)
StuffRange(data, lo, hi) ==
    IF lo > hi THEN <<>>
    ELSE IF lo = hi THEN StuffByte(data[lo])
    ELSE LET mid == (lo + hi) \div 2 IN
         StuffRange(data, lo, mid) \o StuffRange(data, mid + 1, hi)

stuff_bytes(data) == StuffRange(data, 1, Len(data))

encodeSumRaw(f) ==
    LET raw          == <<as_byte(f.dest), as_byte(f.src), f.type_id>> \o f.payload
        cs           == Sum16(raw)
    IN  <<START>> \o stuff_bytes(raw) \o stuff_bytes(<<cs \div 256, cs % 256>>)
                  \o <<END>>

\* mutant of encode: the checksum is written low byte first
encodeLittleEndian(f) ==
    LET raw          == <<as_byte(f.dest), as_byte(f.src), f.type_id>> \o f.payload
        stuffed_data == stuff_bytes(raw)
        cs           == Sum16(stuffed_data)
    IN  <<START>> \o stuffed_data \o stuff_bytes(<<cs % 256, cs \div 256>>)
                  \o <<END>>

encode(f) ==
    LET raw          == <<as_byte(f.dest), as_byte(f.src), f.type_id>> \o f.payload
        stuffed_data == stuff_bytes(raw)
        cs           == Sum16(stuffed_data)
        cs_bytes     == <<cs \div 256, cs % 256>>
        stuffed_cs   == stuff_bytes(cs_bytes)
    IN  <<START>> \o stuffed_data \o stuffed_cs \o <<END>>

\* iter().map(|&b| b as u16).sum() adds with the overflow checks of the
\* build: with them a sum beyond u16::MAX panics, without them it wraps
\* (fewer than 258 bytes cannot add up to it)
sum_overflows(s) == Len(s) * 255 >= U16 /\ SumBytes(s) >= U16

\* the outcomes of encode: its wire bytes, or the panic of the checked sum
encode_outcomes(f) ==
    LET raw == <<as_byte(f.dest), as_byte(f.src), f.type_id>> \o f.payload IN
    {[pc |-> "encoded", wire |-> encode(f)]}
       \cup IF Len(raw) * 2 * 255 >= U16 /\ sum_overflows(stuff_bytes(raw))
             THEN {[pc |-> "panicked", wire |-> <<>>]} ELSE {}

WireErr(e) == [ok |-> FALSE, err |-> e]

EscDecoded(c) ==
    CASE c = 1 -> 240
      [] c = 2 -> 241
      [] c = 3 -> 253
      [] c = 4 -> 250

\* one pass of the unstuffing loop of parse at offset i: acc holds
\* <<decoded byte, wire offset>> pairs, i is the offset of the next pass
UnstuffStep(interior, i, acc) ==
    IF interior[i + 1] = ESC
    THEN IF i + 1 >= Len(interior) THEN WireErr("InvalidEscape")
         ELSE IF interior[i + 2] \in 1..4
              THEN [ok |-> TRUE, i |-> i + 2,
                    out |-> Append(acc, <<EscDecoded(interior[i + 2]), i>>)]
              ELSE WireErr("InvalidEscape")
    ELSE [ok |-> TRUE, i |-> i + 1, out |-> Append(acc, <<interior[i + 1], i>>)]

\* the passes of the loop from offset i while i < to, run by halves of the
\* range; the second half starts where the first one stopped
RECURSIVE UnstuffRange(_, _, _, _)
UnstuffRange(interior, i, to, acc) ==
    IF i >= to THEN [ok |-> TRUE, i |-> i, out |-> acc]
    ELSE IF to - i = 1 THEN UnstuffStep(interior, i, acc)
    ELSE LET mid == (i + to) \div 2
             r   == UnstuffRange(interior, i, mid, acc)
         IN  IF ~r.ok THEN r ELSE UnstuffRange(interior, r.i, to, r.out)

\* the unstuffing loop of parse: while i < interior.len()
Unstuff(interior, i, acc) ==
    LET r == UnstuffRange(interior, i, Len(interior), acc) IN
    IF r.ok THEN [ok |-> TRUE, out |-> r.out] ELSE r

\* mutant of parse: the checksum is taken to fill the last two wire bytes
parseTwoWireBytes(wire) ==
    IF Len(wire) < 7 THEN WireErr("FrameTooShort")
    ELSE IF wire[1] # START THEN WireErr("MissingStart")
    ELSE IF wire[Len(wire)] # END THEN WireErr("MissingEnd")
    ELSE
      LET interior == SubSeq(wire, 2, Len(wire) - 1)
          u        == Unstuff(interior, 0, <<>>)
      IN  IF ~u.ok THEN u
          ELSE IF Len(u.out) < 5 THEN WireErr("FrameTooShort")
          ELSE
            LET n           == Len(u.out)
                cs_received == u.out[n - 1][1] * 256 + u.out[n][1]
                data_end    == Len(interior) - 2
                cs_computed == Sum16(SubSeq(interior, 1, data_end))
                dest        == from_byte(u.out[1][1])
                src         == from_byte(u.out[2][1])
            IN  IF cs_received # cs_computed THEN WireErr("ChecksumMismatch")
                ELSE IF ~dest.ok THEN dest
                ELSE IF ~src.ok THEN src
                ELSE [ok |-> TRUE,
                      frame |-> [dest    |-> dest.addr,
                                 src     |-> src.addr,
                                 type_id |-> u.out[3][1],
                                 payload |-> [k \in 1..(n - 5) |-> u.out[k + 3][1]]]]

\* mutant of parse: only the low bytes of the checksums are compared
parseLowByteOnly(wire) ==
    IF Len(wire) < 7 THEN WireErr("FrameTooShort")
    ELSE IF wire[1] # START THEN WireErr("MissingStart")
    ELSE IF wire[Len(wire)] # END THEN WireErr("MissingEnd")
    ELSE
      LET interior == SubSeq(wire, 2, Len(wire) - 1)
          u        == Unstuff(interior, 0, <<>>)
      IN  IF ~u.ok THEN u
          ELSE IF Len(u.out) < 5 THEN WireErr("FrameTooShort")
          ELSE
            LET n           == Len(u.out)
                cs_received == u.out[n - 1][1] * 256 + u.out[n][1]
                data_end    == u.out[n - 1][2]
                cs_computed == Sum16(SubSeq(interior, 1, data_end))
                dest        == from_byte(u.out[1][1])
                src         == from_byte(u.out[2][1])
            IN  IF cs_received % 256 # cs_computed % 256 THEN WireErr("ChecksumMismatch")
                ELSE IF ~dest.ok THEN dest
                ELSE IF ~src.ok THEN src
                ELSE [ok |-> TRUE,
                      frame |-> [dest    |-> dest.addr,
                                 src     |-> src.addr,
                                 type_id |-> u.out[3][1],
                                 payload |-> [k \in 1..(n - 5) |-> u.out[k + 3][1]]]]

parse(wire) ==
    IF Len(wire) < 7 THEN WireErr("FrameTooShort")
    ELSE IF wire[1] # START THEN WireErr("MissingStart")
    ELSE IF wire[Len(wire)] # END THEN WireErr("MissingEnd")
    ELSE
      LET interior == SubSeq(wire, 2, Len(wire) - 1)
          u        == Unstuff(interior, 0, <<>>)
      IN  IF ~u.ok THEN u
          ELSE IF Len(u.out) < 5 THEN WireErr("FrameTooShort")
          ELSE
            LET n           == Len(u.out)
                cs_received == u.out[n - 1][1] * 256 + u.out[n][1]
                data_end    == u.out[n - 1][2]
                cs_computed == Sum16(SubSeq(interior, 1, data_end))
                dest        == from_byte(u.out[1][1])
                src         == from_byte(u.out[2][1])
            IN  IF cs_received # cs_computed THEN WireErr("ChecksumMismatch")
                ELSE IF ~dest.ok THEN dest
                ELSE IF ~src.ok THEN src
                ELSE [ok |-> TRUE,
                      frame |-> [dest    |-> dest.addr,
                                 src     |-> src.addr,
                                 type_id |-> u.out[3][1],
                                 payload |-> [k \in 1..(n - 5) |-> u.out[k + 3][1]]]]

\* the thread panicked: no value is returned
Panicked == [ok |-> FALSE, err |-> "panic"]

\* parse reaches the sum of interior[..data_end] and the sum overflows
parse_sum_overflows(wire) ==
    /\ Len(wire) * 255 >= U16
    /\ wire[1] = START
    /\ wire[Len(wire)] = END
    /\ LET interior == SubSeq(wire, 2, Len(wire) - 1)
           u        == Unstuff(interior, 0, <<>>)
       IN  /\ u.ok
           /\ Len(u.out) >= 5
           /\ sum_overflows(SubSeq(interior, 1, u.out[Len(u.out) - 1][2]))

\* the outcomes of parse: its result, or the panic of the checked sum
parse_outcomes(wire) ==
    {parse(wire)} \cup IF parse_sum_overflows(wire) THEN {Panicked} ELSE {}

---------------------------------------------------------------------------
(* frame.rs: FrameSplitter                                                 *)

\* iter().position(|&b| b == x): the 0-based index of the first x, or -1
Position(s, x) ==
    IF \E i \in 1..Len(s) : s[i] = x
    THEN (CHOOSE i \in 1..Len(s) : s[i] = x /\ \A j \in 1..(i - 1) : s[j] # x) - 1
    ELSE -1

Drain(s, n) == SubSeq(s, n + 1, Len(s))

\* the loop of feed, on the buffer already extended by the new data
RECURSIVE FeedLoop(_, _)
FeedLoop(buf, frames) ==
    LET start == Position(buf, START) IN
    IF start = -1 THEN [buf |-> <<>>, frames |-> frames]
    ELSE
      LET b1  == Drain(buf, start)
          pos == Position(Tail(b1), END)
      IN  IF pos = -1 THEN [buf |-> b1, frames |-> frames]
          ELSE LET end == pos + 1 IN
               FeedLoop(Drain(b1, end + 1), Append(frames, SubSeq(b1, 1, end + 1)))

\* the loop without the drain of the bytes before the start marker
RECURSIVE FeedLoopNoDrain(_, _)
FeedLoopNoDrain(buf, frames) ==
    LET start == Position(buf, START) IN
    IF start = -1 THEN [buf |-> <<>>, frames |-> frames]
    ELSE
      LET pos == Position(Drain(buf, start + 1), END) IN
      IF pos = -1 THEN [buf |-> buf, frames |-> frames]
      ELSE LET end == start + pos + 1 IN
           FeedLoopNoDrain(Drain(buf, end + 1),
                           Append(frames, SubSeq(buf, 1, end + 1)))

\* the loop in which a start marker after the first one starts the frame anew
RECURSIVE FeedLoopRestart(_, _)
FeedLoopRestart(buf, frames) ==
    LET start == Position(buf, START) IN
    IF start = -1 THEN [buf |-> <<>>, frames |-> frames]
    ELSE
      LET b1  == Drain(buf, start)
          pos == Position(Tail(b1), END)
      IN  IF pos = -1 THEN [buf |-> b1, frames |-> frames]
          ELSE LET end  == pos + 1
                   last == CHOOSE i \in 0..(end - 1) :
                              /\ b1[i + 1] = START
                              /\ \A j \in (i + 1)..(end - 1) : b1[j + 1] # START
               IN  FeedLoopRestart(Drain(b1, end + 1),
                                   Append(frames, SubSeq(b1, last + 1, end + 1)))

feedRestartsAtStart(buf, data) == FeedLoopRestart(buf \o data, <<>>)

\* the loop that leaves a buffer without a start marker as it is
RECURSIVE FeedLoopNoClear(_, _)
FeedLoopNoClear(buf, frames) ==
    LET start == Position(buf, START) IN
    IF start = -1 THEN [buf |-> buf, frames |-> frames]
    ELSE
      LET b1  == Drain(buf, start)
          pos == Position(Tail(b1), END)
      IN  IF pos = -1 THEN [buf |-> b1, frames |-> frames]
          ELSE LET end == pos + 1 IN
               FeedLoopNoClear(Drain(b1, end + 1),
                               Append(frames, SubSeq(b1, 1, end + 1)))

feedNoClear(buf, data) == FeedLoopNoClear(buf \o data, <<>>)

feedClearsPartial(buf, data) ==
    LET r == FeedLoop(buf \o data, <<>>) IN
    [buf |-> IF r.frames = <<>> THEN r.buf ELSE <<>>, frames |-> r.frames]

feedKeepsGarbage(buf, data) == FeedLoopNoDrain(buf \o data, <<>>)

feed(buf, data) == FeedLoop(buf \o data, <<>>)

---------------------------------------------------------------------------
(* protocol/: Message::decode and the decoders it dispatches to (SpecMsg). *)
(* A decoder reads its fields at fixed offsets, the multi-byte ones through *)
(* the readers of codec.rs, which fail only when the slice is too short     *)
(* (check_len).  What a decoder returns therefore depends on the length of  *)
(* the payload and, for the versioned layouts, on payload[0]: a decoder is  *)
(* modelled by the outcome it has, "Ok" or the WireError.                   *)

TYPE_CAM_STATE == 129
TYPE_CAM_CONFIG == 130
TYPE_WIFI_SCAN == 135
TYPE_TIME_SYNC == 155
TYPE_RADAR_CAL == 164
TYPE_MODE_SET == 165
TYPE_STATUS == 170
TYPE_PARAM_VALUE == 191
TYPE_NET_CONFIG == 222
TYPE_PROD_INFO == 253
TYPE_CAM_IMAGE_AVAIL == 132
TYPE_SENSOR_ACT_RESP == 137
TYPE_CONFIG_NACK == 148
TYPE_CONFIG_ACK == 149
TYPE_CONFIG_RESP == 160
TYPE_AVR_CONFIG_RESP == 162
TYPE_MODE_ACK == 177
TYPE_DSP_QUERY_RESP == 200
TYPE_CAL_PARAM_RESP == 209
TYPE_CAL_DATA_RESP == 211
TYPE_FLIGHT_RESULT == 212
TYPE_SPEED_PROFILE == 217
TYPE_TEXT == 227
TYPE_SHOT_TEXT == 229
TYPE_DEV_INFO_RESP == 231
TYPE_FLIGHT_RESULT_V1 == 232
TYPE_TRACKING_STATUS == 233
TYPE_PRC_DATA == 236
TYPE_CLUB_RESULT == 237
TYPE_CLUB_PRC == 238
TYPE_SPIN_RESULT == 239
TYPE_DSP_DEBUG == 240

\* codec.rs check_len: reading need bytes at offset
check_len(data, offset, need) ==
    IF Len(data) < offset + need THEN "PayloadTooShort" ELSE "Ok"

(* codec.rs: the field readers and writers.                                *)
(* An i16, i32 or a 24-bit value is the integer it denotes.  A u32 does    *)
(* not fit the integers of TLC (they end at 2^31 - 1) and is held          *)
(* as its two 16-bit halves [hi, lo].  An f64 is held as the fields of its *)
(* bits: sign, the 11-bit ieee_exp and the 52-bit mantissa as mant_hi (its *)
(* upper 22 bits) and mant_lo (its lower 30 bits).                         *)

Ok(v) == [ok |-> TRUE, val |-> v]
PayloadTooShort == [ok |-> FALSE, err |-> "PayloadTooShort"]

\* the low n bytes of the two's complement of x, most significant first
RECURSIVE to_be_bytes(_, _)
to_be_bytes(x, n) ==
    IF n = 0 THEN <<>> ELSE Append(to_be_bytes(x \div 256, n - 1), x % 256)

\* i16::from_be_bytes
i16_from_be_bytes(b0, b1) ==
    LET u == b0 * 256 + b1 IN IF u >= 32768 THEN u - 65536 ELSE u

read_int16(data, offset) ==
    IF check_len(data, offset, 2) # "Ok" THEN PayloadTooShort
    ELSE Ok(i16_from_be_bytes(data[offset + 1], data[offset + 2]))

read_uint16(data, offset) ==
    IF check_len(data, offset, 2) # "Ok" THEN PayloadTooShort
    ELSE Ok(data[offset + 1] * 256 + data[offset + 2])

\* mutant of read_int24: the 24-bit value is not sign-extended
read_int24Unsigned(data, offset) ==
    IF check_len(data, offset, 3) # "Ok" THEN PayloadTooShort
    ELSE Ok(data[offset + 1] * 65536 + data[offset + 2] * 256 + data[offset + 3])

read_int24(data, offset) ==
    IF check_len(data, offset, 3) # "Ok" THEN PayloadTooShort
    ELSE LET raw == data[offset + 1] * 65536 + data[offset + 2] * 256
                    + data[offset + 3]
         IN  Ok(IF raw >= 8388608 THEN raw - 16777216 ELSE raw)

read_uint24(data, offset) ==
    IF check_len(data, offset, 3) # "Ok" THEN PayloadTooShort
    ELSE Ok(data[offset + 1] * 65536 + data[offset + 2] * 256 + data[offset + 3])

\* i32::from_be_bytes: the first byte carries the sign
read_int32(data, offset) ==
    IF check_len(data, offset, 4) # "Ok" THEN PayloadTooShort
    ELSE LET b0 == data[offset + 1]
         IN  Ok((IF b0 >= 128 THEN b0 - 256 ELSE b0) * 16777216
                + data[offset + 2] * 65536 + data[offset + 3] * 256
                + data[offset + 4])

read_uint32(data, offset) ==
    IF check_len(data, offset, 4) # "Ok" THEN PayloadTooShort
    ELSE Ok([hi |-> data[offset + 1] * 256 + data[offset + 2],
             lo |-> data[offset + 3] * 256 + data[offset + 4]])

\* The f64 that read_float40 returns is held as the product it is computed
\* from: mant * exp2(exp2), and 0.0 as mant = 0, exp2 = 0.
F64Zero == [mant |-> 0, exp2 |-> 0]

\* mutant of read_float40: a zero mantissa under a non-zero exponent is
\* refused
read_float40Strict(data, offset) ==
    IF check_len(data, offset, 5) # "Ok" THEN PayloadTooShort
    ELSE LET exp_raw  == i16_from_be_bytes(data[offset + 1], data[offset + 2])
             mant_raw == read_int24(data, offset + 2)
         IN  IF ~mant_raw.ok THEN mant_raw
             ELSE IF mant_raw.val = 0
                  THEN IF exp_raw = 0 THEN Ok(F64Zero)
                       ELSE [ok |-> FALSE, err |-> "InvalidFloat40"]
             ELSE Ok([mant |-> mant_raw.val, exp2 |-> exp_raw - 23])

read_float40(data, offset) ==
    IF check_len(data, offset, 5) # "Ok" THEN PayloadTooShort
    ELSE LET exp_raw  == i16_from_be_bytes(data[offset + 1], data[offset + 2])
             mant_raw == read_int24(data, offset + 2)
         IN  IF ~mant_raw.ok THEN mant_raw
             ELSE IF mant_raw.val = 0 THEN Ok(F64Zero)
             ELSE Ok([mant |-> mant_raw.val, exp2 |-> exp_raw - 23])

write_int16(buf, val) == buf \o to_be_bytes(val, 2)

write_uint16(buf, val) == buf \o to_be_bytes(val, 2)

\* mutant of write_int24: the upper three bytes of the i32 are taken
write_int24HighBytes(buf, val) == buf \o SubSeq(to_be_bytes(val, 4), 1, 3)

\* bytes[1..4] of val.to_be_bytes()
write_int24(buf, val) == buf \o SubSeq(to_be_bytes(val, 4), 2, 4)

write_uint24(buf, val) == buf \o to_be_bytes(val, 3)

write_int32(buf, val) == buf \o to_be_bytes(val, 4)

write_uint32(buf, val) == buf \o to_be_bytes(val.hi, 2) \o to_be_bytes(val.lo, 2)

\* mutant of write_float40: the mantissa is cut to 16 bits
write_float40Coarse(buf, value) ==
    IF value.ieee_exp = 0 /\ value.mant_hi = 0 /\ value.mant_lo = 0
    THEN buf \o <<0, 0, 0, 0, 0>>
    ELSE LET mant_abs == ((4194304 + value.mant_hi) \div 128) * 128
             mantissa == IF value.sign = 1 THEN -mant_abs ELSE mant_abs
             exponent == value.ieee_exp - 1022
         IN  write_int24(buf \o to_be_bytes(exponent, 2), mantissa)

\* (1 << 52 | ieee_mant) >> 30 is 2^22 + mant_hi
write_float40(buf, value) ==
    IF value.ieee_exp = 0 /\ value.mant_hi = 0 /\ value.mant_lo = 0
    THEN buf \o <<0, 0, 0, 0, 0>>
    ELSE LET mant_abs == 4194304 + value.mant_hi
             mantissa == IF value.sign = 1 THEN -mant_abs ELSE mant_abs
             exponent == value.ieee_exp - 1022
         IN  write_int24(buf \o to_be_bytes(exponent, 2), mantissa)

\* `if payload.len() < n { return Err(payload_too_short(..)) }`, then the
\* field reads, of which the one reaching furthest reads need bytes at offset
Fixed(payload, n, offset, need) ==
    IF Len(payload) < n THEN "PayloadTooShort" ELSE check_len(payload, offset, need)

AvrStatus_decode(payload) == Fixed(payload, 25, 20, 5)

DspStatus80_decode(payload) == Fixed(payload, 64, 63, 1)

\* reads payload[0] and payload[1]; its caller has checked len >= 2
DspStatus46_decode(payload) == "Ok"

DspStatus_decode(payload) ==
    IF Len(payload) < 2 THEN "PayloadTooShort"
    ELSE IF payload[1] = 128 THEN DspStatus80_decode(payload)
    ELSE DspStatus46_decode(payload)

PiStatus_decode(payload) == "Ok"

ConfigAck_decode(payload) == Fixed(payload, 3, 2, 1)

ModeAck_decode(payload) == Fixed(payload, 3, 0, 0)

Text_decode(payload) == "Ok"

ModeSet_decode(payload) == Fixed(payload, 3, 2, 1)

ParamValue_decode(payload) ==
    IF payload = <<>> THEN "PayloadTooShort"
    ELSE CASE payload[1] = 6 -> Fixed(payload, 7, 4, 3)
           [] payload[1] = 8 -> Fixed(payload, 9, 4, 5)
           [] OTHER -> "UnexpectedLength"

RadarCal_decode(payload) == Fixed(payload, 7, 4, 1)

ConfigResp_decode(payload) == Fixed(payload, 69, 67, 2)

AvrConfigResp_decode(payload) == "Ok"

DspQueryResp_decode(payload) == Fixed(payload, 3, 2, 1)

\* takes the text slots that lie inside the payload, whatever its length
DevInfoResp_decode(payload) == "Ok"

ProdInfoResp_decode(payload) == "Ok"

NetConfigResp_decode(payload) == "Ok"

CalParamResp_decode(payload) == "Ok"

CalDataResp_decode(payload) == "Ok"

TimeSync_decode(payload) == Fixed(payload, 9, 2, 4)

CamState_decode(payload) == Fixed(payload, 2, 1, 1)

CamConfig_decode(payload) == Fixed(payload, 52, 50, 2)

CamImageAvail_decode(payload) ==
    IF payload = <<>> THEN "PayloadTooShort"
    ELSE IF payload[1] = 66 THEN Fixed(payload, 67, 35, 32)
    ELSE "Ok"

SensorActResp_decode(payload) == "Ok"

FlightResult_decode(payload) == Fixed(payload, 157, 142, 3)

FlightResultV1_decode(payload) == Fixed(payload, 94, 79, 3)

ClubResult_decode(payload) == Fixed(payload, 167, 164, 3)

SpinResult_decode(payload) == Fixed(payload, 138, 136, 2)

\* a payload of fewer than 12 bytes is returned as a stub with no samples;
\* a longer one has (len - 12) / 2 samples read, all of them inside it
SpeedProfile_decode(payload) ==
    IF Len(payload) < 12 THEN "Ok"
    ELSE IF check_len(payload, 4, 3) # "Ok" THEN check_len(payload, 4, 3)
    ELSE IF check_len(payload, 7, 5) # "Ok" THEN check_len(payload, 7, 5)
    ELSE IF (Len(payload) - 12) \div 2 = 0 THEN "Ok"
    ELSE check_len(payload, 12 + (((Len(payload) - 12) \div 2) - 1) * 2, 2)

TrackingStatus_decode(payload) == Fixed(payload, 82, 80, 2)

\* the points are read only where a whole record lies inside the payload
PrcData_decode(payload) == Fixed(payload, 4, 3, 1)

\* an empty payload has no points; a record cut short ends the loop
ClubPrc_decode(payload) == "Ok"

ShotText_decode(payload) == "Ok"

\* A Message.  Of a decoded variant only the name is kept, and the bytes of
\* those that store the payload; Unknown carries type_id, src and payload.
Variant(name, payload) ==
    [ok |-> TRUE, err |-> "none", msg |-> name, type_id |-> 0, src |-> "App",
     payload |-> payload]

UnknownNoSrc(type_id, src, payload) ==
    [ok |-> TRUE, err |-> "none", msg |-> "Unknown", type_id |-> type_id,
     src |-> "App", payload |-> payload]

Unknown(type_id, src, payload) ==
    [ok |-> TRUE, err |-> "none", msg |-> "Unknown", type_id |-> type_id,
     src |-> src, payload |-> payload]

MsgErr(e) ==
    [ok |-> FALSE, err |-> e, msg |-> "none", type_id |-> 0, src |-> "App",
     payload |-> <<>>]

\* Ok(Message::Name(Name::decode(p)?))
Wrap(name, r, kept) == IF r = "Ok" THEN Variant(name, kept) ELSE MsgErr(r)

\* the fields DspStatus80::decode reads
DspStatus80_fields(payload) ==
    [variant           |-> "V80",
     state             |-> payload[2],
     input_voltage_usb |-> read_int16(payload, 4).val,
     system_voltage    |-> read_int16(payload, 8).val,
     battery_current   |-> read_int16(payload, 18).val,
     temperature_raw   |-> read_int16(payload, 40).val,
     battery_voltage   |-> read_int16(payload, 53).val,
     battery_voltage_2 |-> read_int16(payload, 57).val,
     power_level       |-> read_int16(payload, 61).val,
     external_power    |-> payload[64] # 0]

\* the fields DspStatus46::decode stores
DspStatus46_fields(payload) ==
    [variant |-> "V46",
     state   |-> payload[2],
     version |-> payload[1],
     payload |-> payload]

\* mutant of DspStatus_value: a 0x80 payload too short for the Gen1 layout
\* is kept as the placeholder
DspStatus_valueFallback(payload) ==
    IF Len(payload) < 2 THEN MsgErr("PayloadTooShort")
    ELSE IF payload[1] = 128 /\ Len(payload) >= 64
         THEN Variant("DspStatus", DspStatus80_fields(payload))
    ELSE Variant("DspStatus", DspStatus46_fields(payload))

\* DspStatus::decode with the value it returns: Ok(DspStatus::V80(..)),
\* Ok(DspStatus::V46(..)) or the error
DspStatus_value(payload) ==
    IF DspStatus_decode(payload) # "Ok" THEN MsgErr(DspStatus_decode(payload))
    ELSE IF payload[1] = 128 THEN Variant("DspStatus", DspStatus80_fields(payload))
    ELSE Variant("DspStatus", DspStatus46_fields(payload))

\* DspStatus::battery_percent; (power_level >> 8) as u8 for the Gen1 variant
battery_percent(s) ==
    IF s.variant = "V80" THEN (s.power_level \div 256) % 256 ELSE 0

\* DspStatus::external_power
external_power(s) == IF s.variant = "V80" THEN s.external_power ELSE FALSE

\* DspStatus::temperature_c, in hundredths of a degree: temperature_raw / 100.0
\* for the Gen1 variant and 0.0 for the other
temperature_c(s) == IF s.variant = "V80" THEN s.temperature_raw ELSE 0

\* Message::decode
decode(frame) ==
    LET p == frame.payload
        t == frame.type_id
    IN  CASE t = TYPE_STATUS ->
                (CASE frame.src = "Avr" -> Wrap("AvrStatus", AvrStatus_decode(p), <<>>)
                   [] frame.src = "Dsp" ->
                        DspStatus_value(p)
                   [] frame.src = "Pi" -> Wrap("PiStatus", PiStatus_decode(p), p)
                   [] frame.src = "App" -> Unknown(t, frame.src, p))
          [] t = TYPE_CONFIG_ACK -> Wrap("ConfigAck", ConfigAck_decode(p), <<>>)
          [] t = TYPE_CONFIG_NACK -> Wrap("ConfigNack", ConfigAck_decode(p), <<>>)
          [] t = TYPE_MODE_ACK -> Wrap("ModeAck", ModeAck_decode(p), <<>>)
          [] t = TYPE_TEXT -> Wrap("Text", Text_decode(p), <<>>)
          [] t = TYPE_MODE_SET -> Wrap("ModeSet", ModeSet_decode(p), <<>>)
          [] t = TYPE_PARAM_VALUE -> Wrap("ParamValue", ParamValue_decode(p), <<>>)
          [] t = TYPE_RADAR_CAL -> Wrap("RadarCal", RadarCal_decode(p), <<>>)
          [] t = TYPE_CONFIG_RESP -> Wrap("ConfigResp", ConfigResp_decode(p), <<>>)
          [] t = TYPE_AVR_CONFIG_RESP ->
                Wrap("AvrConfigResp", AvrConfigResp_decode(p), p)
          [] t = TYPE_DSP_QUERY_RESP ->
                Wrap("DspQueryResp", DspQueryResp_decode(p), <<>>)
          [] t = TYPE_DEV_INFO_RESP -> Wrap("DevInfoResp", DevInfoResp_decode(p), <<>>)
          [] t = TYPE_PROD_INFO -> Wrap("ProdInfoResp", ProdInfoResp_decode(p), <<>>)
          [] t = TYPE_NET_CONFIG -> Wrap("NetConfigResp", NetConfigResp_decode(p), <<>>)
          [] t = TYPE_CAL_PARAM_RESP -> Wrap("CalParamResp", CalParamResp_decode(p), p)
          [] t = TYPE_CAL_DATA_RESP -> Wrap("CalDataResp", CalDataResp_decode(p), p)
          [] t = TYPE_TIME_SYNC -> Wrap("TimeSync", TimeSync_decode(p), <<>>)
          [] t = TYPE_CAM_STATE -> Wrap("CamState", CamState_decode(p), <<>>)
          [] t = TYPE_CAM_CONFIG -> Wrap("CamConfig", CamConfig_decode(p), <<>>)
          [] t = TYPE_CAM_IMAGE_AVAIL ->
                Wrap("CamImageAvail", CamImageAvail_decode(p), <<>>)
          [] t = TYPE_SENSOR_ACT_RESP ->
                Wrap("SensorActResp", SensorActResp_decode(p), p)
          [] t = TYPE_WIFI_SCAN -> Variant("WifiScan", p)
          [] t = TYPE_FLIGHT_RESULT -> Wrap("FlightResult", FlightResult_decode(p), <<>>)
          [] t = TYPE_FLIGHT_RESULT_V1 ->
                Wrap("FlightResultV1", FlightResultV1_decode(p), <<>>)
          [] t = TYPE_CLUB_RESULT -> Wrap("ClubResult", ClubResult_decode(p), <<>>)
          [] t = TYPE_SPIN_RESULT -> Wrap("SpinResult", SpinResult_decode(p), <<>>)
          [] t = TYPE_SPEED_PROFILE -> Wrap("SpeedProfile", SpeedProfile_decode(p), <<>>)
          [] t = TYPE_TRACKING_STATUS ->
                Wrap("TrackingStatus", TrackingStatus_decode(p), <<>>)
          [] t = TYPE_PRC_DATA -> Wrap("PrcData", PrcData_decode(p), <<>>)
          [] t = TYPE_CLUB_PRC -> Wrap("ClubPrc", ClubPrc_decode(p), <<>>)
          [] t = TYPE_SHOT_TEXT -> Wrap("ShotText", ShotText_decode(p), <<>>)
          [] t = TYPE_DSP_DEBUG -> Variant("DspDebug", p)
          [] OTHER -> Unknown(t, frame.src, p)

\* the type ids Message::decode has an arm for
DecodedTypes ==
    {TYPE_STATUS, TYPE_CONFIG_ACK, TYPE_CONFIG_NACK, TYPE_MODE_ACK, TYPE_TEXT,
     TYPE_MODE_SET, TYPE_PARAM_VALUE, TYPE_RADAR_CAL, TYPE_CONFIG_RESP,
     TYPE_AVR_CONFIG_RESP, TYPE_DSP_QUERY_RESP, TYPE_DEV_INFO_RESP, TYPE_PROD_INFO,
     TYPE_NET_CONFIG, TYPE_CAL_PARAM_RESP, TYPE_CAL_DATA_RESP, TYPE_TIME_SYNC,
     TYPE_CAM_STATE, TYPE_CAM_CONFIG, TYPE_CAM_IMAGE_AVAIL, TYPE_SENSOR_ACT_RESP,
     TYPE_WIFI_SCAN, TYPE_FLIGHT_RESULT, TYPE_FLIGHT_RESULT_V1, TYPE_CLUB_RESULT,
     TYPE_SPIN_RESULT, TYPE_SPEED_PROFILE, TYPE_TRACKING_STATUS, TYPE_PRC_DATA,
     TYPE_CLUB_PRC, TYPE_SHOT_TEXT, TYPE_DSP_DEBUG}

---------------------------------------------------------------------------
(* Parked values: a specification that does not drive a layer holds its    *)
(* variables at these.                                                     *)

NoFrame == [dest |-> "App", src |-> "App", type_id |-> 0, payload |-> <<>>]

CodecPark ==
    /\ fr_in = NoFrame
    /\ fr_hdr = <<>>
    /\ fr_wire = <<>>
    /\ fr_out = WireErr("none")
    /\ c_pc = "off"

SplitPark ==
    /\ s_rest = <<>>
    /\ s_fed = <<>>
    /\ s_buf = <<>>
    /\ s_last = <<>>
    /\ s_emitted = <<>>
    /\ s_exp = <<>>
    /\ s_garbage = <<>>
    /\ s_calls = 0

NoRet == [kind |-> "none", read |-> "none", timeout |-> 0, elapsed |-> 0]

ConnPark ==
    /\ k_sent = <<>>
    /\ k_out = <<>>
    /\ k_sock = <<>>
    /\ k_closed = FALSE
    /\ k_buf = <<>>
    /\ k_pending = <<>>
    /\ k_pc = "off"
    /\ k_timeout = 0
    /\ k_elapsed = 0
    /\ k_read = 0
    /\ k_ret = NoRet
    /\ k_delivered = <<>>

NoEnv == [src |-> "App", msg |-> "none", text |-> {}]
NoOut == [kind |-> "none", env |-> NoEnv, called |-> FALSE]

SeqPark ==
    /\ q_fn = "none"
    /\ q_np = 0
    /\ q_tmo = 0
    /\ q_step = 0
    /\ q_pc = "off"
    /\ q_now = 0
    /\ q_deadline = -1
    /\ q_result = "none"
    /\ q_sent = <<>>
    /\ q_got = NoOut
    /\ q_ret = NoEnv
    /\ q_skips = 0
    /\ q_overran = FALSE
    /\ q_flags = [mode |-> FALSE, cfg |-> FALSE]
    /\ q_cal = [factory |-> "unset", ifcal |-> "unset"]
    /\ q_armed = FALSE

NoMsg ==
    [ok |-> FALSE, err |-> "none", msg |-> "none", type_id |-> 0, src |-> "App",
     payload |-> <<>>]

MsgPark ==
    /\ m_frame = NoFrame
    /\ m_out = NoMsg
    /\ m_pc = "off"

NumPark ==
    /\ n_kind = "none"
    /\ n_off = 0
    /\ n_val = "none"
    /\ n_bytes = <<>>
    /\ n_out = [ok |-> FALSE, err |-> "none"]
    /\ n_pc = "off"

ObsPark ==
    /\ o_calls = <<>>
    /\ o_on_send = <<>>
    /\ o_written = {}
    /\ o_pc = "off"
    /\ o_on_recv = <<>>

---------------------------------------------------------------------------
(* SpecCodec: encode a drawn RawFrame, then parse the bytes.               *)

\* payload and type bytes drawn: a plain byte and the four reserved ones
ByteSamples == {1, 240, 241, 253, 250}
TypeIdSamples == {1, 170, 240}

SeqsUpTo(S, n) == UNION {[1..k -> S] : k \in 0..n}

Frames ==
    [dest : BusAddr, src : BusAddr, type_id : TypeIdSamples,
     payload : SeqsUpTo(ByteSamples, MaxPayload)]

CodecInit ==
    /\ fr_in \in Frames
    /\ fr_hdr = <<>>
    /\ fr_wire = <<>>
    /\ fr_out = WireErr("none")
    /\ c_pc = "start"
    /\ SplitPark
    /\ ConnPark
    /\ SeqPark
    /\ MsgPark
    /\ NumPark
    /\ ObsPark

Encode ==
    /\ c_pc = "start"
    /\ \E o \in encode_outcomes(fr_in) :
          /\ fr_wire' = o.wire
          /\ c_pc' = o.pc
    /\ UNCHANGED <<fr_in, fr_hdr, fr_out, splitVars, connVars, seqVars, msgVars, numVars, obsVars>>

Parse ==
    /\ c_pc \in {"encoded", "flipped"}
    /\ \E r \in parse_outcomes(fr_wire) :
          /\ fr_out' = r
          /\ c_pc' = IF r = Panicked THEN "panicked"
                     ELSE IF c_pc = "encoded" THEN "parsed" ELSE "parsed_flipped"
    /\ UNCHANGED <<fr_in, fr_hdr, fr_wire, splitVars, connVars, seqVars, msgVars, numVars, obsVars>>

CodecNext == Encode \/ Parse

SpecCodec == CodecInit /\ [][CodecNext]_vars

---------------------------------------------------------------------------
(* SpecFlip: encode a drawn RawFrame, replace one wire byte of its checksum *)
(* by any other byte value, and parse the result.                           *)

\* the wire bytes of the checksum of encode(f): stuffed_cs
stuffed_cs(f) ==
    LET raw == <<as_byte(f.dest), as_byte(f.src), f.type_id>> \o f.payload
        cs  == Sum16(stuff_bytes(raw))
    IN  stuff_bytes(<<cs \div 256, cs % 256>>)

FlipFrames ==
    [dest : {"App"}, src : {"Avr", "Dsp"}, type_id : TypeIdSamples,
     payload : SeqsUpTo(ByteSamples, MaxFlipPayload)]

FlipInit ==
    /\ fr_in \in FlipFrames
    /\ fr_hdr = <<>>
    /\ fr_wire = <<>>
    /\ fr_out = WireErr("none")
    /\ c_pc = "start"
    /\ SplitPark
    /\ ConnPark
    /\ SeqPark
    /\ MsgPark
    /\ NumPark
    /\ ObsPark

\* one of the wire bytes of the checksum (they end before the END marker)
\* is replaced by a different value
Flip ==
    /\ c_pc = "encoded"
    /\ \E i \in (Len(fr_wire) - Len(stuffed_cs(fr_in)))..(Len(fr_wire) - 1) :
          \E v \in (0..255) \ {fr_wire[i]} :
             fr_wire' = [fr_wire EXCEPT ![i] = v]
    /\ c_pc' = "flipped"
    /\ UNCHANGED <<fr_in, fr_hdr, fr_out, splitVars, connVars, seqVars, msgVars, numVars, obsVars>>

FlipNext == Encode \/ Flip \/ Parse

SpecFlip == FlipInit /\ [][FlipNext]_vars

---------------------------------------------------------------------------
(* SpecAddr: a sender writes a frame with any destination and source byte  *)
(* and a checksum that matches; the bytes are parsed.                      *)

\* the wire frame a sender makes of the interior bytes raw: they are
\* stuffed, summed and put between the markers as encode does it
wire_frame(raw) ==
    LET stuffed_data == stuff_bytes(raw)
        cs           == Sum16(stuffed_data)
    IN  <<START>> \o stuffed_data \o stuff_bytes(<<cs \div 256, cs % 256>>)
                  \o <<END>>

AddrInit ==
    /\ fr_in = NoFrame
    /\ fr_hdr \in (0..255) \X (0..255)
    /\ fr_wire = <<>>
    /\ fr_out = WireErr("none")
    /\ c_pc = "raw"
    /\ SplitPark
    /\ ConnPark
    /\ SeqPark
    /\ MsgPark
    /\ NumPark
    /\ ObsPark

\* the sender writes a STATUS frame with payload 01 01 under the drawn header
Write ==
    /\ c_pc = "raw"
    /\ fr_wire' = wire_frame(fr_hdr \o <<TYPE_STATUS, 1, 1>>)
    /\ c_pc' = "encoded"
    /\ UNCHANGED <<fr_in, fr_hdr, fr_out, splitVars, connVars, seqVars, msgVars, numVars, obsVars>>

AddrNext == Write \/ Parse

SpecAddr == AddrInit /\ [][AddrNext]_vars

---------------------------------------------------------------------------
(* SpecSum: encode and parse of frames whose checksum has a reserved byte   *)
(* or whose byte sum passes u16::MAX: a run of FF bytes and one more byte.  *)

\* longest run of FF bytes in a drawn payload
MaxFill == 258

FillLens == {0} \cup ((MaxFill - 18)..MaxFill)

SumFrames ==
    {[dest |-> "App", src |-> "Avr", type_id |-> 1,
      payload |-> [i \in 1..n |-> 255] \o <<t>>] : n \in FillLens, t \in 0..255}

SumInit ==
    /\ fr_in \in SumFrames
    /\ fr_hdr = <<>>
    /\ fr_wire = <<>>
    /\ fr_out = WireErr("none")
    /\ c_pc = "start"
    /\ SplitPark
    /\ ConnPark
    /\ SeqPark
    /\ MsgPark
    /\ NumPark
    /\ ObsPark

SumNext == Encode \/ Parse

SpecSum == SumInit /\ [][SumNext]_vars

---------------------------------------------------------------------------
(* SpecNum: a drawn value is written to a buffer by the writer of its      *)
(* field type and read back at the offset it was written to; drawn bytes   *)
(* are read as a field.                                                    *)

\* most bytes in the buffer before the field
MaxOffset == 1

Kinds == {"INT16", "UINT16", "INT24", "UINT24", "INT32", "UINT32", "FLOAT40"}

Width(kind) ==
    CASE kind \in {"INT16", "UINT16"} -> 2
      [] kind \in {"INT24", "UINT24"} -> 3
      [] kind \in {"INT32", "UINT32"} -> 4
      [] kind = "FLOAT40"             -> 5

\* the bytes the sampled values are made of
EdgeBytes == {0, 1, 127, 128, 255}

Signed(b) == IF b >= 128 THEN b - 256 ELSE b

F64(sign, ieee_exp, mant_hi, mant_lo) ==
    [sign |-> sign, ieee_exp |-> ieee_exp, mant_hi |-> mant_hi, mant_lo |-> mant_lo]

\* the f64 nearest to each literal of tests::float40_round_trip, in its order
RoundTripValues ==
    << F64(0, 1023, 0, 0), F64(1, 1023, 0, 0), F64(0, 1026, 2359296, 0),
       F64(0, 1029, 2359296, 0), F64(0, 1017, 2623956, 625347238),
       F64(1, 1024, 629145, 644245094), F64(0, 1013, 100663, 317827580),
       F64(0, 1032, 3997687, 867583394) >>

\* 0.0 and -0.0, and the least and the greatest normal f64 of each sign
OtherF64 ==
    {F64(0, 0, 0, 0), F64(1, 0, 0, 0)}
    \cup {F64(s, e, m, l) : s \in {0, 1}, e \in {1, 2046},
                            m \in {0, 4194303}, l \in {0, 1073741823}}

\* the values drawn for a field type: every 16-bit value, and of the wider
\* types the values whose bytes are edge bytes
Values(kind) ==
    CASE kind = "INT16"  -> -32768..32767
      [] kind = "UINT16" -> 0..65535
      [] kind = "INT24"  ->
           {Signed(a) * 65536 + b * 256 + c : a, b, c \in EdgeBytes} \cup {42, -42}
      [] kind = "UINT24" -> {a * 65536 + b * 256 + c : a, b, c \in EdgeBytes}
      [] kind = "INT32"  ->
           {Signed(a) * 16777216 + b * 65536 + c * 256 + d : a, b, c, d \in EdgeBytes}
      [] kind = "UINT32" ->
           {[hi |-> a * 256 + b, lo |-> c * 256 + d] : a, b, c, d \in EdgeBytes}
      [] kind = "FLOAT40" ->
           {RoundTripValues[i] : i \in 1..Len(RoundTripValues)} \cup OtherF64

\* the byte strings drawn for a reader: edge bytes of the width of the field
\* and shorter ones; for FLOAT40 also the vectors of the tests, and every
\* exponent of edge bytes over a zero mantissa
RawFields(kind) ==
    UNION {[1..n -> EdgeBytes] : n \in 0..(IF kind = "FLOAT40" THEN 4 ELSE Width(kind))}
    \cup (IF kind # "FLOAT40" THEN {}
          ELSE {<<0, 1, 64, 0, 0>>, <<0, 4, 100, 0, 0>>, <<0, 2, 182, 102, 103>>,
                <<0, 7, 100, 0, 0>>, <<255, 251, 104, 9, 226>>}
               \cup {<<a, b, 0, 0, 0>> : a, b \in EdgeBytes})

Pad(n) == [i \in 1..n |-> 255]

write_field(kind, buf, val) ==
    CASE kind = "INT16"   -> write_int16(buf, val)
      [] kind = "UINT16"  -> write_uint16(buf, val)
      [] kind = "INT24"   -> write_int24(buf, val)
      [] kind = "UINT24"  -> write_uint24(buf, val)
      [] kind = "INT32"   -> write_int32(buf, val)
      [] kind = "UINT32"  -> write_uint32(buf, val)
      [] kind = "FLOAT40" -> write_float40(buf, val)

read_field(kind, data, offset) ==
    CASE kind = "INT16"   -> read_int16(data, offset)
      [] kind = "UINT16"  -> read_uint16(data, offset)
      [] kind = "INT24"   -> read_int24(data, offset)
      [] kind = "UINT24"  -> read_uint24(data, offset)
      [] kind = "INT32"   -> read_int32(data, offset)
      [] kind = "UINT32"  -> read_uint32(data, offset)
      [] kind = "FLOAT40" -> read_float40(data, offset)

NumInit ==
    /\ n_kind \in Kinds
    /\ n_off \in 0..MaxOffset
    /\ \/ /\ n_pc = "start"
          /\ n_val \in Values(n_kind)
          /\ n_bytes = Pad(n_off)
       \/ /\ n_pc = "bytes"
          /\ n_val = "none"
          /\ n_bytes \in {Pad(n_off) \o raw : raw \in RawFields(n_kind)}
    /\ n_out = [ok |-> FALSE, err |-> "none"]
    /\ CodecPark
    /\ SplitPark
    /\ ConnPark
    /\ SeqPark
    /\ MsgPark
    /\ ObsPark

WriteField ==
    /\ n_pc = "start"
    /\ n_bytes' = write_field(n_kind, n_bytes, n_val)
    /\ n_pc' = "written"
    /\ UNCHANGED <<n_kind, n_off, n_val, n_out, codecVars, splitVars, connVars,
                   seqVars, msgVars, obsVars>>

ReadField ==
    /\ n_pc \in {"written", "bytes"}
    /\ n_out' = read_field(n_kind, n_bytes, n_off)
    /\ n_pc' = IF n_pc = "written" THEN "read" ELSE "read_raw"
    /\ UNCHANGED <<n_kind, n_off, n_val, n_bytes, codecVars, splitVars, connVars,
                   seqVars, msgVars, obsVars>>

NumNext == WriteField \/ ReadField

SpecNum == NumInit /\ [][NumNext]_vars

---------------------------------------------------------------------------
(* SpecSplit: feed a drawn byte stream to a fresh FrameSplitter, cut into  *)
(* non-empty chunks at any places.                                         *)

\* most wire frames put back to back in a drawn stream
MaxSplitFrames == 2

\* the frames the framed streams are built from: the worked example of the
\* tests, an empty payload, and a payload that is escaped
SplitFrames ==
    { [dest |-> "Dsp", src |-> "App", type_id |-> 170, payload |-> <<1, 1>>],
      [dest |-> "Avr", src |-> "App", type_id |-> 105, payload |-> <<>>],
      [dest |-> "App", src |-> "Avr", type_id |-> 1, payload |-> <<240>>] }

RECURSIVE Flatten(_)
Flatten(ss) == IF ss = <<>> THEN <<>> ELSE Head(ss) \o Flatten(Tail(ss))

\* garbage: bytes other than START (END among them)
GarbageBytes == {7, 241}
\* raw streams: any bytes, the two markers among them
RawBytes == {7, 240, 241}

FramedStreams ==
    { [garbage |-> g, exp |-> [i \in 1..Len(fs) |-> encode(fs[i])]] :
        g \in SeqsUpTo(GarbageBytes, MaxGarbage),
        fs \in SeqsUpTo(SplitFrames, MaxSplitFrames) \ {<<>>} }

SplitInit ==
    /\ \/ \E st \in FramedStreams :
            /\ s_rest = st.garbage \o Flatten(st.exp)
            /\ s_exp = st.exp
            /\ s_garbage = st.garbage
       \/ /\ s_rest \in SeqsUpTo(RawBytes, MaxRaw)
          /\ s_exp = <<>>
          /\ s_garbage = <<>>
    /\ s_fed = <<>>
    /\ s_buf = <<>>
    /\ s_last = <<>>
    /\ s_emitted = <<>>
    /\ s_calls = 0
    /\ CodecPark
    /\ ConnPark
    /\ SeqPark
    /\ MsgPark
    /\ NumPark
    /\ ObsPark

Feed ==
    \E n \in 1..Len(s_rest) :
        LET data == SubSeq(s_rest, 1, n)
            r    == feed(s_buf, data)
        IN  /\ s_buf' = r.buf
            /\ s_last' = r.frames
            /\ s_emitted' = s_emitted \o r.frames
            /\ s_fed' = s_fed \o data
            /\ s_rest' = Drain(s_rest, n)
            /\ s_calls' = s_calls + 1
            /\ UNCHANGED <<s_exp, s_garbage, codecVars, connVars, seqVars, msgVars, numVars, obsVars>>

SplitNext == Feed

SpecSplit == SplitInit /\ [][SplitNext]_vars

---------------------------------------------------------------------------
(* SpecConn: conn.rs.  The device wrote the frames k_sent; the network     *)
(* hands their bytes to the socket in segments (Arrive), the peer may      *)
(* close, and the caller makes recv and recv_timeout calls one after the   *)
(* other.  A call that finds no pending frame blocks in stream.read; time  *)
(* passes (Tick) only while a read is blocked with nothing to return.      *)

\* the frames the device writes: three type ids outside the known set, so
\* that Message::decode yields Unknown and never fails.  The frames of one
\* run are distinct, so that the order they are returned in can be seen.
ConnFrames ==
    { [dest |-> "App", src |-> "Avr", type_id |-> 1, payload |-> <<>>],
      [dest |-> "App", src |-> "Dsp", type_id |-> 2, payload |-> <<>>],
      [dest |-> "App", src |-> "Pi", type_id |-> 3, payload |-> <<240>>] }

\* the stream lengths at which a TCP segment may end: the third byte of
\* each frame and the end of each frame
RECURSIVE SegCuts(_, _)
SegCuts(ws, base) ==
    IF ws = <<>> THEN {}
    ELSE {base + 3, base + Len(Head(ws))}
           \cup SegCuts(Tail(ws), base + Len(Head(ws)))

WireOf(fs) == [i \in 1..Len(fs) |-> encode(fs[i])]

RECURSIVE Reverse(_)
Reverse(s) == IF s = <<>> THEN <<>> ELSE Append(Reverse(Tail(s)), Head(s))

\* Vec::pop: the last element and the vector without it
Pop(v) == [item |-> v[Len(v)], rest |-> SubSeq(v, 1, Len(v) - 1)]

\* decode_wire; of the decoded message the envelope keeps the variant
decode_wire(wire) ==
    LET r == parse(wire) IN
    IF ~r.ok THEN [kind |-> "Wire", err |-> r.err]
    ELSE LET m == decode(r.frame) IN
         IF ~m.ok THEN [kind |-> "Wire", err |-> m.err]
         ELSE [kind |-> "Ok",
               env |-> [src |-> r.frame.src, type_id |-> r.frame.type_id,
                        raw |-> r.frame.payload, message |-> m.msg]]

ConnInit ==
    /\ k_sent \in {fs \in SeqsUpTo(ConnFrames, MaxConnFrames) \ {<<>>} :
                       \A i, j \in 1..Len(fs) : fs[i] = fs[j] => i = j}
    /\ k_out = Flatten(WireOf(k_sent))
    /\ k_sock = <<>>
    /\ k_closed = FALSE
    /\ k_buf = <<>>
    /\ k_pending = <<>>
    /\ k_pc = "idle"
    /\ k_timeout = 0
    /\ k_elapsed = 0
    /\ k_read = 0
    /\ k_ret = NoRet
    /\ k_delivered = <<>>
    /\ CodecPark
    /\ SplitPark
    /\ SeqPark
    /\ MsgPark
    /\ NumPark
    /\ ObsPark

\* recv_inner, after decode_wire(..)? gave r: the envelopes the on-recv
\* observer is called with before recv_inner returns
on_recvAlsoErrors(r) ==
    IF r.kind = "Ok" THEN <<r.env>>
    ELSE IF r.kind = "Wire" THEN <<[src |-> "App", type_id |-> 0, raw |-> <<>>,
                                     message |-> "none"]>>
    ELSE <<>>

on_recv(r) == IF r.kind = "Ok" THEN <<r.env>> ELSE <<>>

\* Connection::send: the calls of the on-send observer it makes
on_send(cmd, dest) == <<<<cmd, dest>>>>

\* the match of recv_timeout on what recv_inner returned
recv_timeout_matchWouldBlockOnly(r) ==
    IF r.kind = "Io" /\ r.io = "WouldBlock" THEN [kind |-> "Timeout"] ELSE r

recv_timeout_match(r) ==
    IF r.kind = "Io" /\ r.io \in {"WouldBlock", "TimedOut"}
    THEN [kind |-> "Timeout"]
    ELSE r

\* a recv call (timeout 0) or a recv_timeout call returns what recv_inner
\* returned, r; read is what the last stream.read of the call returned:
\* "data", "eof" (zero bytes), the ErrorKind it failed with, or "none" when
\* the call made no read
Return(r, read, timeout, elapsed) ==
    /\ k_pc' = "idle"
    /\ o_on_recv' = o_on_recv \o on_recv(r)
    /\ k_ret' = [kind |-> (IF timeout # 0 THEN recv_timeout_match(r) ELSE r).kind,
                 read |-> read, timeout |-> timeout, elapsed |-> elapsed]
    /\ k_delivered' = IF r.kind = "Ok" THEN Append(k_delivered, r.env)
                      ELSE k_delivered

\* mutant of RecvInnerEnter: the stream is read before pending is looked at
RecvInnerEnterReadFirst(timeout) ==
    /\ o_pc # "write"
    /\ k_timeout' = timeout
    /\ k_elapsed' = 0
    /\ k_read' = 0
    /\ k_pc' = "reading"
    /\ UNCHANGED <<k_pending, k_ret, k_delivered, o_on_recv>>
    /\ UNCHANGED <<k_sent, k_out, k_sock, k_closed, k_buf, codecVars, splitVars, seqVars, msgVars, numVars, sendVars>>

\* mutant of RecvInnerEnter: a frame that fails to decode takes the other
\* pending frames with it
RecvInnerEnterClearsOnError(timeout) ==
    /\ o_pc # "write"
    /\ k_timeout' = timeout
    /\ k_elapsed' = 0
    /\ k_read' = 0
    /\ IF k_pending # <<>>
       THEN LET p == Pop(k_pending) IN
            /\ k_pending' = IF decode_wire(p.item).kind = "Ok" THEN p.rest ELSE <<>>
            /\ Return(decode_wire(p.item), "none", timeout, 0)
       ELSE /\ k_pc' = "reading"
            /\ UNCHANGED <<k_pending, k_ret, k_delivered, o_on_recv>>
    /\ UNCHANGED <<k_sent, k_out, k_sock, k_closed, k_buf, codecVars, splitVars, seqVars, msgVars, numVars, sendVars>>

\* recv_inner up to its first stream.read: a pending frame is returned at
\* once, otherwise the call blocks in the read
RecvInnerEnter(timeout) ==
    /\ o_pc # "write"
    /\ k_timeout' = timeout
    /\ k_elapsed' = 0
    /\ k_read' = 0
    /\ IF k_pending # <<>>
       THEN LET p == Pop(k_pending) IN
            /\ k_pending' = p.rest
            /\ Return(decode_wire(p.item), "none", timeout, 0)
       ELSE /\ k_pc' = "reading"
            /\ UNCHANGED <<k_pending, k_ret, k_delivered, o_on_recv>>
    /\ UNCHANGED <<k_sent, k_out, k_sock, k_closed, k_buf, codecVars, splitVars, seqVars, msgVars, numVars, sendVars>>

Recv ==
    /\ k_pc = "idle"
    /\ RecvInnerEnter(0)

RecvTimeout ==
    /\ k_pc = "idle"
    /\ \E timeout \in 1..MaxTimeout : RecvInnerEnter(timeout)

\* the network hands the next segment to the socket
Arrive ==
    /\ k_pc # "off"
    /\ LET ws == WireOf(k_sent)
           written == Len(Flatten(ws)) - Len(k_out)
           cuts == SegCuts(ws, 0)
       IN  \E n \in 1..Len(k_out) :
              /\ (written + n) \in cuts
              /\ k_sock' = k_sock \o SubSeq(k_out, 1, n)
              /\ k_out' = Drain(k_out, n)
    /\ UNCHANGED <<k_sent, k_closed, k_buf, k_pending, k_pc, k_timeout, k_elapsed,
                   k_read, k_ret, k_delivered, codecVars, splitVars, seqVars, msgVars, numVars, obsVars>>

\* the peer closes the stream: the close reaches the socket after the last
\* byte the device wrote
PeerClose ==
    /\ k_pc # "off"
    /\ ~k_closed
    /\ k_out = <<>>
    /\ k_closed' = TRUE
    /\ UNCHANGED <<k_sent, k_out, k_sock, k_buf, k_pending, k_pc, k_timeout,
                   k_elapsed, k_read, k_ret, k_delivered, codecVars, splitVars, seqVars, msgVars, numVars, obsVars>>

\* the blocked read has nothing to return yet
ReadBlocked ==
    /\ k_pc = "reading"
    /\ k_sock = <<>>
    /\ ~(k_closed /\ k_out = <<>>)
    /\ k_timeout = 0 \/ k_elapsed - k_read < k_timeout

Tick ==
    /\ ReadBlocked
    /\ k_elapsed < MaxElapsed
    /\ k_elapsed' = k_elapsed + 1
    /\ UNCHANGED <<k_sent, k_out, k_sock, k_closed, k_buf, k_pending, k_pc,
                   k_timeout, k_read, k_ret, k_delivered, codecVars, splitVars, seqVars, msgVars, numVars, obsVars>>

\* mutant of ReadData: the frame is decoded before the others are stashed,
\* and its error returns without them
ReadDataDecodeFirst ==
    /\ k_pc = "reading"
    /\ k_sock # <<>>
    /\ k_sock' = <<>>
    /\ LET r == feed(k_buf, k_sock) IN
       /\ k_buf' = r.buf
       /\ IF r.frames # <<>>
          THEN LET p == Pop(r.frames) IN
               /\ k_pending' = IF decode_wire(p.item).kind = "Ok"
                               THEN k_pending \o Reverse(p.rest)
                               ELSE k_pending
               /\ Return(decode_wire(p.item), "data", k_timeout, k_elapsed)
               /\ UNCHANGED k_read
          ELSE /\ k_read' = k_elapsed
               /\ UNCHANGED <<k_pending, k_pc, k_ret, k_delivered, o_on_recv>>
    /\ UNCHANGED <<k_sent, k_out, k_closed, k_timeout, k_elapsed, codecVars,
                   splitVars, seqVars, msgVars, numVars, sendVars>>

\* stream.read returns the bytes in the socket: feed them, return a frame
\* or read again
ReadData ==
    /\ k_pc = "reading"
    /\ k_sock # <<>>
    /\ k_sock' = <<>>
    /\ LET r == feed(k_buf, k_sock) IN
       /\ k_buf' = r.buf
       /\ IF r.frames # <<>>
          THEN LET p == Pop(r.frames) IN
               /\ k_pending' = k_pending \o Reverse(p.rest)
               /\ Return(decode_wire(p.item), "data", k_timeout, k_elapsed)
               /\ UNCHANGED k_read
          ELSE /\ k_read' = k_elapsed
               /\ UNCHANGED <<k_pending, k_pc, k_ret, k_delivered, o_on_recv>>
    /\ UNCHANGED <<k_sent, k_out, k_closed, k_timeout, k_elapsed, codecVars,
                   splitVars, seqVars, msgVars, numVars, sendVars>>

\* the read timeout passes: stream.read fails with WouldBlock or TimedOut
\* (which of them is the platform's choice) and recv_inner returns Io
ReadTimedOut ==
    /\ k_pc = "reading"
    /\ k_sock = <<>>
    /\ k_timeout # 0
    /\ k_elapsed - k_read >= k_timeout
    /\ \E e \in {"WouldBlock", "TimedOut"} :
          Return([kind |-> "Io", io |-> e], e, k_timeout, k_elapsed)
    /\ UNCHANGED <<k_sent, k_out, k_sock, k_closed, k_buf, k_pending, k_timeout,
                   k_elapsed, k_read, codecVars, splitVars, seqVars, msgVars, numVars, sendVars>>

\* stream.read returns 0 bytes: the peer closed
ReadEof ==
    /\ k_pc = "reading"
    /\ k_sock = <<>>
    /\ k_closed /\ k_out = <<>>
    /\ Return([kind |-> "Disconnected"], "eof", k_timeout, k_elapsed)
    /\ UNCHANGED <<k_sent, k_out, k_sock, k_closed, k_buf, k_pending, k_timeout,
                   k_elapsed, k_read, codecVars, splitVars, seqVars, msgVars, numVars, sendVars>>

ConnNext ==
    \/ Recv
    \/ RecvTimeout
    \/ Arrive
    \/ PeerClose
    \/ Tick
    \/ ReadData
    \/ ReadTimedOut
    \/ ReadEof

SpecConn == ConnInit /\ [][ConnNext]_vars

---------------------------------------------------------------------------
(* SpecObs: the observers of a Connection (set_on_send, set_on_recv), both  *)
(* registered.  The caller makes send and recv calls one after the other;   *)
(* a write may fail.  Among the frames that arrive are one whose payload is *)
(* too short for its decoder and one that was damaged on the wire, so that  *)
(* decode_wire fails in Message::decode and in RawFrame::parse.             *)

\* a frame of an unknown type, a ConfigAck, and a ConfigAck with no payload
ObsFrames ==
    { [dest |-> "App", src |-> "Avr", type_id |-> 1, payload |-> <<240>>],
      [dest |-> "App", src |-> "Avr", type_id |-> TYPE_CONFIG_ACK,
       payload |-> <<2, 48, 1>>],
      [dest |-> "App", src |-> "Pi", type_id |-> TYPE_CONFIG_ACK, payload |-> <<>>] }

\* a wire frame whose last checksum byte was changed on the way
Damaged(wire) ==
    [wire EXCEPT ![Len(wire) - 1] = IF wire[Len(wire) - 1] = 7 THEN 8 ELSE 7]

\* the commands and destinations of the send calls
ObsCalls == {<<"StatusPoll", "Dsp">>, <<"DspQuery", "Dsp">>, <<"StatusPoll", "Avr">>}

ObsInit ==
    /\ k_sent \in {fs \in SeqsUpTo(ObsFrames, MaxObsFrames) \ {<<>>} :
                       \A i, j \in 1..Len(fs) : fs[i] = fs[j] => i = j}
    /\ \E bad \in 0..Len(k_sent) :
          k_out = Flatten([i \in 1..Len(k_sent) |->
                              IF i = bad THEN Damaged(encode(k_sent[i]))
                              ELSE encode(k_sent[i])])
    /\ k_sock = <<>>
    /\ k_closed = FALSE
    /\ k_buf = <<>>
    /\ k_pending = <<>>
    /\ k_pc = "idle"
    /\ k_timeout = 0
    /\ k_elapsed = 0
    /\ k_read = 0
    /\ k_ret = NoRet
    /\ k_delivered = <<>>
    /\ o_calls = <<>>
    /\ o_on_send = <<>>
    /\ o_written = {}
    /\ o_pc = "idle"
    /\ o_on_recv = <<>>
    /\ CodecPark
    /\ SplitPark
    /\ SeqPark
    /\ MsgPark
    /\ NumPark

\* Connection::send up to its write: the on-send observer is called
Send ==
    /\ o_pc = "idle"
    /\ k_pc = "idle"
    /\ Len(o_calls) < MaxSends
    /\ \E c \in ObsCalls :
          /\ o_calls' = Append(o_calls, c)
          /\ o_on_send' = o_on_send \o on_send(c[1], c[2])
    /\ o_pc' = "write"
    /\ UNCHANGED <<o_written, o_on_recv, codecVars, splitVars, connVars, seqVars,
                   msgVars, numVars>>

\* send_raw: stream.write_all writes the frame or fails, and send returns
WriteAll ==
    /\ o_pc = "write"
    /\ \E ok \in BOOLEAN :
          o_written' = IF ok THEN o_written \cup {Len(o_calls)} ELSE o_written
    /\ o_pc' = "idle"
    /\ UNCHANGED <<o_calls, o_on_send, o_on_recv, codecVars, splitVars, connVars,
                   seqVars, msgVars, numVars>>

ObsNext ==
    \/ Send
    \/ WriteAll
    \/ Recv
    \/ Arrive
    \/ PeerClose
    \/ ReadData
    \/ ReadEof

SpecObs == ObsInit /\ [][ObsNext]_vars

---------------------------------------------------------------------------
(* seq.rs: the handshake sequencer (SpecSeq).  Time is counted in ticks of *)
(* one second.                                                             *)

TIMEOUT == 2

DeviceBuses == {"Avr", "Dsp", "Pi"}

\* the variants of Message whose content the sequencer never looks at
PlainVariants ==
    {"ConfigAck", "ConfigNack", "ModeAck", "ModeSet", "ParamValue", "RadarCal",
     "ConfigResp", "AvrConfigResp", "DspQueryResp", "DevInfoResp", "ProdInfoResp",
     "NetConfigResp", "CalParamResp", "CalDataResp", "TimeSync", "CamState",
     "CamConfig", "CamImageAvail", "SensorActResp", "WifiScan", "FlightResult",
     "FlightResultV1", "ClubResult", "SpinResult", "SpeedProfile",
     "TrackingStatus", "PrcData", "ClubPrc", "DspDebug", "Unknown"}

Env(src, msg, text) == [src |-> src, msg |-> msg, text |-> text]

\* what Message::decode makes of a status frame (0xAA) depends on its source
StatusVariant(src) ==
    CASE src = "Avr" -> "AvrStatus"
      [] src = "Dsp" -> "DspStatus"
      [] src = "Pi"  -> "PiStatus"
      [] OTHER       -> "Unknown"

\* the envelopes recv_timeout can return; a text is kept as the set of the
\* words the sequencer searches it for
Envelopes ==
    {Env(s, m, {}) : s \in DeviceBuses, m \in PlainVariants}
    \cup {Env(s, StatusVariant(s), {}) : s \in BusAddr}
    \cup {Env(s, "Text", w) : s \in DeviceBuses, w \in SUBSET {"ARMED", "CANCELLED"}}
    \cup {Env(s, "ShotText", w) : s \in DeviceBuses, w \in SUBSET {"IDLE"}}

Cmd(name, arg) == [name |-> name, arg |-> arg]

\* the steps a function is made of
SendRecvStep(cmd, dest, variant) ==
    [k |-> "send_recv", cmd |-> cmd, dest |-> dest, expect |-> variant]
SendStep(cmd, dest) ==
    [k |-> "send", cmd |-> cmd, dest |-> dest, expect |-> "none"]
RecvSkipAckStep(from, variant) ==
    [k |-> "recv_skip_ack", cmd |-> Cmd("none", 0), dest |-> from, expect |-> variant]
DrainUntilStep(variant) ==
    [k |-> "drain_until", cmd |-> Cmd("none", 0), dest |-> "App", expect |-> variant]
InlineStep(kind) ==
    [k |-> kind, cmd |-> Cmd("none", 0), dest |-> "App", expect |-> "none"]

\* mutant of sync_dsp: DevInfoReq is sent before DspQuery
sync_dspSwapped ==
    << SendRecvStep(Cmd("StatusPoll", 0), "Dsp", "DspStatus"),
       SendRecvStep(Cmd("DevInfoReq", 0), "Dsp", "DevInfoResp"),
       SendRecvStep(Cmd("DspQuery", 0), "Dsp", "DspQueryResp"),
       SendRecvStep(Cmd("ProdInfoReq", 0), "Dsp", "ProdInfoResp"),
       SendRecvStep(Cmd("ProdInfoReq", 8), "Dsp", "ProdInfoResp"),
       SendRecvStep(Cmd("ProdInfoReq", 9), "Dsp", "ProdInfoResp"),
       SendRecvStep(Cmd("ConfigQuery", 0), "Dsp", "ConfigResp") >>

sync_dsp ==
    << SendRecvStep(Cmd("StatusPoll", 0), "Dsp", "DspStatus"),
       SendRecvStep(Cmd("DspQuery", 0), "Dsp", "DspQueryResp"),
       SendRecvStep(Cmd("DevInfoReq", 0), "Dsp", "DevInfoResp"),
       SendRecvStep(Cmd("ProdInfoReq", 0), "Dsp", "ProdInfoResp"),
       SendRecvStep(Cmd("ProdInfoReq", 8), "Dsp", "ProdInfoResp"),
       SendRecvStep(Cmd("ProdInfoReq", 9), "Dsp", "ProdInfoResp"),
       SendRecvStep(Cmd("ConfigQuery", 0), "Dsp", "ConfigResp") >>

sync_avr ==
    << SendRecvStep(Cmd("StatusPoll", 0), "Avr", "AvrStatus"),
       SendRecvStep(Cmd("StatusPoll", 0), "Avr", "AvrStatus"),
       SendRecvStep(Cmd("DevInfoReq", 0), "Avr", "DevInfoResp"),
       SendRecvStep(Cmd("DevInfoReq", 0), "Avr", "DevInfoResp"),
       SendRecvStep(Cmd("ParamReadReq", 12), "Avr", "ParamValue"),
       SendRecvStep(Cmd("ParamReadReq", 13), "Avr", "ParamValue"),
       SendRecvStep(Cmd("ConfigQuery", 0), "Avr", "ConfigResp"),
       SendStep(Cmd("CalDataReq", 3), "Avr"),
       RecvSkipAckStep("Avr", "CalDataResp"),
       SendStep(Cmd("CalParamReq", 0), "Avr"),
       RecvSkipAckStep("Avr", "CalParamResp"),
       SendRecvStep(Cmd("AvrConfigQuery", 0), "Avr", "AvrConfigResp"),
       SendRecvStep(Cmd("ParamReadReq", 100), "Avr", "ParamValue"),
       SendRecvStep(Cmd("TimeSync", 0), "Avr", "TimeSync") >>

PiParamIds == <<1, 7, 8, 9, 6, 11, 3, 4, 5>>

sync_pi ==
    << SendRecvStep(Cmd("StatusPoll", 1), "Pi", "PiStatus"),
       SendRecvStep(Cmd("DevInfoReq", 0), "Pi", "DevInfoResp"),
       SendRecvStep(Cmd("ParamReadReq", 10), "Pi", "ParamValue"),
       SendRecvStep(Cmd("CamConfigReq", 0), "Pi", "CamConfig"),
       SendRecvStep(Cmd("CamConfigReq", 0), "Pi", "CamConfig"),
       SendRecvStep(Cmd("NetConfigReq", 0), "Pi", "NetConfigResp"),
       SendRecvStep(Cmd("NetConfigReq", 1), "Pi", "NetConfigResp") >>
    \o [i \in 1..Len(PiParamIds) |->
            SendRecvStep(Cmd("ParamReadReq", PiParamIds[i]), "Pi", "ParamValue")]

\* mutant of configure_avr: the parameters are written without a commit
configure_avrNoCommit(np) ==
    [j \in 1..np |-> SendRecvStep(Cmd("ParamValue", j), "Avr", "ConfigAck")]
    \o << SendRecvStep(Cmd("ModeSet", 0), "Avr", "ModeSet"),
          SendRecvStep(Cmd("AvrConfigCmd", 0), "Avr", "ConfigAck"),
          SendRecvStep(Cmd("RadarCal", 0), "Avr", "RadarCal"),
          SendRecvStep(Cmd("AvrConfigCmd", 0), "Avr", "ConfigAck") >>

\* settings.params has np entries; entry i is written as ParamValue i
configure_avr(np) ==
    [j \in 1..(2 * np) |->
        IF j % 2 = 1 THEN SendRecvStep(Cmd("ParamValue", (j + 1) \div 2), "Avr", "ConfigAck")
        ELSE SendRecvStep(Cmd("AvrConfigCmd", 0), "Avr", "ConfigAck")]
    \o << SendRecvStep(Cmd("ModeSet", 0), "Avr", "ModeSet"),
          SendRecvStep(Cmd("AvrConfigCmd", 0), "Avr", "ConfigAck"),
          SendRecvStep(Cmd("RadarCal", 0), "Avr", "RadarCal"),
          SendRecvStep(Cmd("AvrConfigCmd", 0), "Avr", "ConfigAck") >>

configure_camera ==
    << SendRecvStep(Cmd("CamConfig", 0), "Pi", "ConfigAck"),
       SendRecvStep(Cmd("CamConfigReq", 0), "Pi", "CamConfig"),
       SendRecvStep(Cmd("CamState", 1), "Pi", "ConfigAck"),
       SendRecvStep(Cmd("ParamValue", 2), "Pi", "ConfigAck") >>

arm ==
    << SendRecvStep(Cmd("StatusPoll", 0), "Dsp", "DspStatus"),
       SendRecvStep(Cmd("AvrConfigCmd", 1), "Avr", "ConfigAck"),
       SendRecvStep(Cmd("StatusPoll", 1), "Pi", "PiStatus"),
       InlineStep("wait_for_armed") >>

\* mutant of keepalive: the PI is polled like the other two (pi_mode false)
keepalivePlainPi ==
    << SendRecvStep(Cmd("StatusPoll", 0), "Dsp", "DspStatus"),
       SendRecvStep(Cmd("StatusPoll", 0), "Avr", "AvrStatus"),
       SendRecvStep(Cmd("StatusPoll", 0), "Pi", "PiStatus") >>

keepalive ==
    << SendRecvStep(Cmd("StatusPoll", 0), "Dsp", "DspStatus"),
       SendRecvStep(Cmd("StatusPoll", 0), "Avr", "AvrStatus"),
       SendRecvStep(Cmd("StatusPoll", 1), "Pi", "PiStatus") >>

\* mutant of complete_shot: ConfigQuery is sent before the wait for IDLE
complete_shotQueryFirst ==
    << SendStep(Cmd("ShotDataAck", 0), "Avr"),
       SendStep(Cmd("ShotDataAck", 0), "Avr"),
       SendStep(Cmd("ConfigQuery", 0), "Avr"),
       InlineStep("drain_idle"),
       InlineStep("cfg_wait"),
       SendStep(Cmd("ShotResultReq", 0), "Avr"),
       DrainUntilStep("ClubResult"),
       SendRecvStep(Cmd("AvrConfigCmd", 1), "Avr", "ConfigAck"),
       InlineStep("wait_for_armed") >>

complete_shot ==
    << SendStep(Cmd("ShotDataAck", 0), "Avr"),
       SendStep(Cmd("ShotDataAck", 0), "Avr"),
       InlineStep("drain_idle"),
       SendStep(Cmd("ConfigQuery", 0), "Avr"),
       InlineStep("cfg_wait"),
       SendStep(Cmd("ShotResultReq", 0), "Avr"),
       DrainUntilStep("ClubResult"),
       SendRecvStep(Cmd("AvrConfigCmd", 1), "Avr", "ConfigAck"),
       InlineStep("wait_for_armed") >>

\* recv_msg is public: a caller runs it on its own
recv_msg_alone == << InlineStep("recv_msg") >>

Phases == {"sync_dsp", "sync_avr", "sync_pi", "configure_avr",
           "configure_camera", "arm", "keepalive"}

Fns == Phases \cup {"complete_shot", "recv_msg"}

Script(fn, np) ==
    CASE fn = "sync_dsp"         -> sync_dsp
      [] fn = "sync_avr"         -> sync_avr
      [] fn = "sync_pi"          -> sync_pi
      [] fn = "configure_avr"    -> configure_avr(np)
      [] fn = "configure_camera" -> configure_camera
      [] fn = "arm"              -> arm
      [] fn = "keepalive"        -> keepalive
      [] fn = "complete_shot"    -> complete_shot
      [] fn = "recv_msg"         -> recv_msg_alone
      [] OTHER                   -> <<>>

\* mutant of expect: every variant is taken for the expected one
expectAny(env, variant) == TRUE

\* expect!(env, variant): the envelope carries the variant
expect(env, variant) == env.msg = variant

\* The loops of the five helpers.  Each takes what recv_timeout returned (or
\* the Timeout of a deadline found expired) and says what the helper does
\* with it: "continue" (skip the envelope and loop), "return" (return the
\* envelope), or the ConnError it returns.

recv_msg(out) ==
    IF out.kind # "Ok" THEN out.kind
    ELSE IF out.env.msg \in {"Text", "DspDebug"} THEN "continue"
    ELSE "return"

\* mutant of send_recv: the source of the envelope is not compared with dest
send_recvAnyBus(out, dest) ==
    IF out.kind # "Ok" THEN out.kind
    ELSE IF out.env.msg \in {"Text", "DspDebug", "CamState", "ModeAck",
                             "ConfigNack", "Unknown"} THEN "continue"
    ELSE "return"

send_recv(out, dest) ==
    IF out.kind # "Ok" THEN out.kind
    ELSE IF out.env.src # dest THEN "continue"
    ELSE IF out.env.msg \in {"Text", "DspDebug", "CamState", "ModeAck",
                             "ConfigNack", "Unknown"} THEN "continue"
    ELSE "return"

\* mutant of recv_skip_ack: a response that extract refuses is skipped too
recv_skip_ackKeepsWaiting(out, from, variant) ==
    IF out.kind # "Ok" THEN out.kind
    ELSE IF \/ out.env.msg \in {"Text", "DspDebug", "ConfigAck", "ConfigNack",
                                "Unknown"}
            \/ out.env.src # from THEN "continue"
    ELSE IF out.env.msg = variant THEN "return"
    ELSE "continue"

recv_skip_ack(out, from, variant) ==
    IF out.kind # "Ok" THEN out.kind
    ELSE IF \/ out.env.msg \in {"Text", "DspDebug", "ConfigAck", "ConfigNack",
                                "Unknown"}
            \/ out.env.src # from THEN "continue"
    ELSE IF out.env.msg = variant THEN "return"
    ELSE "Protocol"

drain_until(out, variant) ==
    IF out.kind # "Ok" THEN out.kind
    ELSE IF out.env.msg = variant THEN "return"
    ELSE "continue"

wait_for_armed(out) ==
    IF out.kind # "Ok" THEN out.kind
    ELSE IF /\ out.env.msg = "Text"
            /\ "ARMED" \in out.env.text
            /\ "CANCELLED" \notin out.env.text THEN "return"
    ELSE "continue"

\* complete_shot step 2: the loop that waits for the ShotText "IDLE"
drain_idle(out) ==
    IF out.kind # "Ok" THEN out.kind
    ELSE IF out.env.msg = "ShotText" /\ "IDLE" \in out.env.text THEN "return"
    ELSE "continue"

\* mutant of cfg_flags: a ConfigResp is not recorded
cfg_flagsNoResp(flags, env) ==
    IF env.msg = "ModeAck" THEN [flags EXCEPT !.mode = TRUE] ELSE flags

\* complete_shot step 3: the flags after one more envelope
cfg_flags(flags, env) ==
    IF env.msg = "ModeAck" THEN [flags EXCEPT !.mode = TRUE]
    ELSE IF env.msg = "ConfigResp" THEN [flags EXCEPT !.cfg = TRUE]
    ELSE flags

\* mutant of remaining: the full timeout is handed over on every retry
remainingFull(k, deadline, now, tmo) == tmo

\* the duration a loop hands to recv_timeout: deadline - now, saturating;
\* the loop of complete_shot step 2 has no deadline and hands over t itself
remaining(k, deadline, now, tmo) ==
    IF k = "drain_idle" THEN tmo
    ELSE IF deadline > now THEN deadline - now
    ELSE 0

CurScript == Script(q_fn, q_np)
CurStep == CurScript[q_step]

\* the function goes on with step i of its script, or returns Ok after the
\* last one; a helper that has no send fixes its deadline on entry
Enter(script, i, tmo) ==
    IF i > Len(script)
    THEN /\ q_pc' = "done"
         /\ q_result' = "Ok"
         /\ UNCHANGED <<q_step, q_now, q_deadline, q_skips, q_overran, q_flags>>
    ELSE /\ q_step' = i
         /\ q_pc' = IF script[i].k \in {"send_recv", "send"} THEN "send" ELSE "loop"
         /\ q_now' = 0
         /\ q_deadline' = IF script[i].k \in {"send_recv", "send", "drain_idle"}
                          THEN -1 ELSE tmo
         /\ q_skips' = 0
         /\ q_overran' = FALSE
         /\ q_flags' = [mode |-> FALSE, cfg |-> FALSE]
         /\ UNCHANGED q_result

\* the function returns Err(e)
Fail(e) ==
    /\ q_pc' = "done"
    /\ q_result' = e
    /\ UNCHANGED <<q_step, q_now, q_deadline, q_skips, q_overran, q_flags>>

\* the loop goes round: the envelope is dropped
Skip ==
    /\ q_pc' = "loop"
    /\ q_skips' = IF q_skips < MaxSkips THEN q_skips + 1 ELSE q_skips
    /\ UNCHANGED <<q_step, q_now, q_deadline, q_result, q_overran, q_flags>>

SeqInit ==
    /\ CodecPark
    /\ SplitPark
    /\ ConnPark
    /\ MsgPark
    /\ NumPark
    /\ ObsPark
    /\ q_fn = "none"
    /\ q_np = 0
    /\ q_tmo = 0
    /\ q_step = 0
    /\ q_pc = "idle"
    /\ q_now = 0
    /\ q_deadline = -1
    /\ q_result = "none"
    /\ q_sent = <<>>
    /\ q_got = NoOut
    /\ q_ret = NoEnv
    /\ q_skips = 0
    /\ q_overran = FALSE
    /\ q_flags = [mode |-> FALSE, cfg |-> FALSE]
    /\ q_cal = [factory |-> "unset", ifcal |-> "unset"]
    /\ q_armed = FALSE

\* the application calls one function of the sequencer
SeqCall ==
    /\ q_pc = "idle"
    /\ \E fn \in Fns, np \in 0..MaxParams, tmo \in 1..TIMEOUT :
          /\ fn # "configure_avr" => np = 0
          /\ fn # "recv_msg" => tmo = TIMEOUT
          /\ q_fn' = fn
          /\ q_np' = np
          /\ q_tmo' = tmo
          /\ Enter(Script(fn, np), 1, tmo)
    /\ UNCHANGED <<q_sent, q_got, q_ret, q_cal, q_armed, codecVars, splitVars, connVars, msgVars, numVars, obsVars>>

\* conn.send(cmd, dest): the write blocks for a while and succeeds or fails;
\* send_recv fixes its deadline after the write
ConnSend ==
    /\ q_pc = "send"
    /\ \E ok \in BOOLEAN, d \in 0..MaxSendDelay :
          /\ q_sent' = Append(q_sent, [cmd |-> CurStep.cmd, dest |-> CurStep.dest,
                                       ok |-> ok])
          /\ IF ~ok THEN d = 0 /\ Fail("Io")
             ELSE IF CurStep.k = "send"
             THEN d = 0 /\ Enter(CurScript, q_step + 1, q_tmo)
             ELSE /\ q_pc' = "loop"
                  /\ q_now' = q_now + d
                  /\ q_deadline' = q_now + d + q_tmo
                  /\ UNCHANGED <<q_step, q_result, q_skips, q_overran, q_flags>>
    /\ UNCHANGED <<q_fn, q_np, q_tmo, q_got, q_ret, q_cal, q_armed,
                   codecVars, splitVars, connVars, msgVars, numVars, obsVars>>

\* the test of wait_for_armed on what recv_timeout returned
is_armed_text(out) == wait_for_armed(out) = "return"

\* arm has the ConfigAck of AvrConfigCmd{arm: true}: it is in the PI status
\* exchange or in wait_for_armed
after_arm_ack == q_fn = "arm" /\ q_step >= 3

\* what a recv_timeout call can return
RecvOutcomes ==
    {[kind |-> "Ok", env |-> e, called |-> TRUE] : e \in Envelopes}
    \cup {[kind |-> k, env |-> NoEnv, called |-> TRUE] :
             k \in {"Timeout", "Disconnected", "Io", "Wire"}}

\* the head of a loop: an expired deadline is a Timeout without a call;
\* otherwise recv_timeout(remaining) blocks for d ticks and returns.  It
\* returns Timeout no sooner than after the duration it was given, and it can
\* overrun that duration (conn.rs: the read timeout is per read)
RecvTimeoutCall ==
    /\ q_pc = "loop"
    /\ q_pc' = "got"
    /\ LET rem == remaining(CurStep.k, q_deadline, q_now, q_tmo) IN
          IF rem = 0
          THEN /\ q_got' = [kind |-> "Timeout", env |-> NoEnv, called |-> FALSE]
               /\ UNCHANGED <<q_now, q_overran, q_armed>>
          ELSE \E o \in RecvOutcomes, d \in 0..(rem + MaxOverrun) :
                  /\ o.kind = "Timeout" => d >= rem
                  /\ q_deadline = -1 => q_now + d <= MaxSeqClock
                  /\ q_got' = o
                  /\ q_now' = q_now + d
                  /\ q_overran' = (q_overran \/ d > rem)
                  /\ q_armed' = (q_armed \/ (after_arm_ack /\ is_armed_text(o)))
    /\ UNCHANGED <<q_fn, q_np, q_tmo, q_step, q_deadline, q_result, q_sent, q_ret,
                   q_skips, q_flags, q_cal, codecVars, splitVars, connVars, msgVars, numVars, obsVars>>

\* the rest of each loop body, run on what recv_timeout returned, and what
\* the calling function does with the helper's result

\* send_recv followed by expect!: a wrong variant is ConnError::Protocol
SendRecvLoop ==
    /\ q_pc = "got"
    /\ CurStep.k = "send_recv"
    /\ LET v == send_recv(q_got, CurStep.dest) IN
          IF v = "continue" THEN Skip /\ UNCHANGED q_ret
          ELSE IF v = "return"
          THEN /\ q_ret' = q_got.env
               /\ IF expect(q_got.env, CurStep.expect)
                  THEN Enter(CurScript, q_step + 1, q_tmo)
                  ELSE Fail("Protocol")
          ELSE Fail(v) /\ q_ret' = NoEnv
    /\ q_got' = NoOut
    /\ UNCHANGED <<q_fn, q_np, q_tmo, q_sent, q_armed, q_cal, codecVars, splitVars, connVars, msgVars, numVars, obsVars>>

RecvMsgLoop ==
    /\ q_pc = "got"
    /\ CurStep.k = "recv_msg"
    /\ LET v == recv_msg(q_got) IN
          IF v = "continue" THEN Skip /\ UNCHANGED q_ret
          ELSE IF v = "return"
          THEN q_ret' = q_got.env /\ Enter(CurScript, q_step + 1, q_tmo)
          ELSE Fail(v) /\ q_ret' = NoEnv
    /\ q_got' = NoOut
    /\ UNCHANGED <<q_fn, q_np, q_tmo, q_sent, q_armed, q_cal, codecVars, splitVars, connVars, msgVars, numVars, obsVars>>

\* sync_avr: the calibration answers are optional, a Timeout makes them None
RecvSkipAckLoop ==
    /\ q_pc = "got"
    /\ CurStep.k = "recv_skip_ack"
    /\ LET v == recv_skip_ack(q_got, CurStep.dest, CurStep.expect)
           field == IF CurStep.expect = "CalDataResp" THEN "factory" ELSE "ifcal"
       IN IF v = "continue" THEN Skip /\ UNCHANGED <<q_ret, q_cal>>
          ELSE IF v = "return"
          THEN /\ q_ret' = q_got.env
               /\ q_cal' = [q_cal EXCEPT ![field] = "Some"]
               /\ Enter(CurScript, q_step + 1, q_tmo)
          ELSE IF v = "Timeout"
          THEN /\ q_ret' = NoEnv
               /\ q_cal' = [q_cal EXCEPT ![field] = "None"]
               /\ Enter(CurScript, q_step + 1, q_tmo)
          ELSE /\ q_ret' = q_got.env
               /\ Fail(v)
               /\ UNCHANGED q_cal
    /\ q_got' = NoOut
    /\ UNCHANGED <<q_fn, q_np, q_tmo, q_sent, q_armed, codecVars, splitVars, connVars, msgVars, numVars, obsVars>>

\* complete_shot step 4: the result of drain_until is dropped (let _ =)
DrainUntilLoop ==
    /\ q_pc = "got"
    /\ CurStep.k = "drain_until"
    /\ LET v == drain_until(q_got, CurStep.expect) IN
          IF v = "continue" THEN Skip /\ UNCHANGED q_ret
          ELSE /\ q_ret' = q_got.env
               /\ Enter(CurScript, q_step + 1, q_tmo)
    /\ q_got' = NoOut
    /\ UNCHANGED <<q_fn, q_np, q_tmo, q_sent, q_armed, q_cal, codecVars, splitVars, connVars, msgVars, numVars, obsVars>>

WaitForArmedLoop ==
    /\ q_pc = "got"
    /\ CurStep.k = "wait_for_armed"
    /\ LET v == wait_for_armed(q_got) IN
          IF v = "continue" THEN Skip /\ UNCHANGED q_ret
          ELSE IF v = "return"
          THEN q_ret' = q_got.env /\ Enter(CurScript, q_step + 1, q_tmo)
          ELSE Fail(v) /\ q_ret' = NoEnv
    /\ q_got' = NoOut
    /\ UNCHANGED <<q_fn, q_np, q_tmo, q_sent, q_armed, q_cal, codecVars, splitVars, connVars, msgVars, numVars, obsVars>>

\* complete_shot step 2
DrainIdleLoop ==
    /\ q_pc = "got"
    /\ CurStep.k = "drain_idle"
    /\ LET v == drain_idle(q_got) IN
          IF v = "continue" THEN Skip /\ UNCHANGED q_ret
          ELSE IF v = "return"
          THEN q_ret' = q_got.env /\ Enter(CurScript, q_step + 1, q_tmo)
          ELSE Fail(v) /\ q_ret' = NoEnv
    /\ q_got' = NoOut
    /\ UNCHANGED <<q_fn, q_np, q_tmo, q_sent, q_armed, q_cal, codecVars, splitVars, connVars, msgVars, numVars, obsVars>>

\* complete_shot step 3: loop until both flags are set; a Timeout breaks the
\* loop and the function goes on, another error is returned
CfgWaitLoop ==
    /\ q_pc = "got"
    /\ CurStep.k = "cfg_wait"
    /\ IF q_got.kind = "Ok"
       THEN LET f == cfg_flags(q_flags, q_got.env) IN
               IF f.mode /\ f.cfg
               THEN q_ret' = q_got.env /\ Enter(CurScript, q_step + 1, q_tmo)
               ELSE /\ q_pc' = "loop"
                    /\ q_flags' = f
                    /\ q_skips' = IF f = q_flags /\ q_skips < MaxSkips
                                  THEN q_skips + 1 ELSE q_skips
                    /\ UNCHANGED <<q_step, q_now, q_deadline, q_result, q_overran,
                                   q_ret>>
       ELSE IF q_got.kind = "Timeout"
       THEN q_ret' = NoEnv /\ Enter(CurScript, q_step + 1, q_tmo)
       ELSE Fail(q_got.kind) /\ q_ret' = NoEnv
    /\ q_got' = NoOut
    /\ UNCHANGED <<q_fn, q_np, q_tmo, q_sent, q_armed, q_cal, codecVars, splitVars, connVars, msgVars, numVars, obsVars>>

SeqNext ==
    \/ SeqCall
    \/ ConnSend
    \/ RecvTimeoutCall
    \/ SendRecvLoop
    \/ RecvMsgLoop
    \/ RecvSkipAckLoop
    \/ DrainUntilLoop
    \/ WaitForArmedLoop
    \/ DrainIdleLoop
    \/ CfgWaitLoop

SpecSeq == SeqInit /\ [][SeqNext]_vars

---------------------------------------------------------------------------
(* SpecMsg: Message::decode on a drawn RawFrame.  Frames of a type id with  *)
(* an arm carry payloads of every length up to MaxMsgLen, with each of the  *)
(* version bytes (and a plain one) at payload[0]; frames of every other     *)
(* type id, and status frames, carry short payloads of any sample bytes.    *)

\* payload[0] of the versioned layouts: DspStatus 0x80 and 0x46, ParamValue 0x06 and
\* 0x08, CamImageAvail 0x42, PrcData header 3; and a byte that is none of them
FirstBytes == {128, 70, 6, 8, 66, 3, 1}

PayloadOf(b0, n) == [i \in 1..n |-> IF i = 1 THEN b0 ELSE 1]

LongPayloads == {PayloadOf(b0, n) : b0 \in FirstBytes, n \in 0..MaxMsgLen}

ShortPayloads == SeqsUpTo(ByteSamples, MaxUnknownPayload)

MsgFrames ==
    [dest : {"App"}, src : BusAddr, type_id : DecodedTypes, payload : LongPayloads]
    \cup [dest : {"App"}, src : BusAddr, type_id : 0..255, payload : ShortPayloads]

MsgInit ==
    /\ m_frame \in MsgFrames
    /\ m_out = NoMsg
    /\ m_pc = "start"
    /\ CodecPark
    /\ SplitPark
    /\ ConnPark
    /\ SeqPark
    /\ NumPark
    /\ ObsPark

Decode ==
    /\ m_pc = "start"
    /\ m_out' = decode(m_frame)
    /\ m_pc' = "decoded"
    /\ UNCHANGED <<m_frame, codecVars, splitVars, connVars, seqVars, numVars, obsVars>>

MsgNext == Decode

SpecMsg == MsgInit /\ [][MsgNext]_vars

---------------------------------------------------------------------------
(* Claims                                                                  *)

IsPrefix(s, t) == Len(s) <= Len(t) /\ s = SubSeq(t, 1, Len(s))

\* the envelope recv returns for a frame the device wrote
EnvOf(f) ==
    [src |-> f.src, type_id |-> f.type_id, raw |-> f.payload, message |-> "Unknown"]

(* C1: recv and recv_timeout return the frames in wire order: the          *)
(* envelopes returned so far are those of the first frames the device      *)
(* wrote, in the order it wrote them, also when one read held several      *)
(* frames.                                                                 *)
C1_WireOrder ==
    IsPrefix(k_delivered, [i \in 1..Len(k_sent) |-> EnvOf(k_sent[i])])

(* C6: recv_timeout(timeout) blocks at most timeout: the call is never     *)
(* still blocked later than timeout after it was entered, and whatever it  *)
(* returns, it returns no later than that.                                 *)
C6_WithinTimeout ==
    /\ (k_pc = "reading" /\ k_timeout # 0) => k_elapsed <= k_timeout
    /\ (k_pc = "idle" /\ k_ret.kind # "none" /\ k_ret.timeout # 0) =>
           k_ret.elapsed <= k_ret.timeout

C3_ChunkIndependent ==
    /\ s_emitted = feed(<<>>, s_fed).frames
    /\ (s_garbage = <<>> /\ Len(s_exp) = 1) =>
          IF s_rest # <<>>
          THEN s_emitted = <<>>
          ELSE s_emitted = s_exp /\ s_last = s_exp

\* one wire frame was fed in three or more chunks and came out with the last
C3_Witness ==
    /\ s_garbage = <<>>
    /\ Len(s_exp) = 1
    /\ s_rest = <<>>
    /\ s_calls >= 3
    /\ s_last = s_exp

(* C4: a stream of garbage bytes (none of them F0) followed by several     *)
(* wire frames back to back yields exactly those frames, in stream order:  *)
(* the garbage yields no frame.                                            *)
C4_InOrder ==
    Len(s_exp) >= 1 =>
        /\ IsPrefix(s_emitted, s_exp)
        /\ s_rest = <<>> => s_emitted = s_exp

\* garbage and two frames were fed in one call, which returned the two frames
C4_Witness ==
    /\ s_calls = 1
    /\ s_rest = <<>>
    /\ s_garbage # <<>>
    /\ Len(s_exp) >= 2
    /\ s_last = s_exp


\* the helpers of seq.rs that work against a deadline
DeadlineHelpers == {"recv_msg", "send_recv", "recv_skip_ack", "drain_until",
                    "wait_for_armed"}

(* C5 (as amended): in recv_msg, recv_skip_ack, drain_until and            *)
(* wait_for_armed the deadline is fixed once at entry, in send_recv once   *)
(* after the send has returned; it is entry (or end of send) + T, and when *)
(* every recv_timeout call honoured its argument, each of them returns,    *)
(* and so the helper returns, no later than that deadline, however many    *)
(* envelopes were skipped.                                                 *)
C5_WithinDeadline ==
    (q_pc \in {"loop", "got"} /\ CurStep.k \in DeadlineHelpers) =>
        /\ q_deadline - q_tmo \in 0..MaxSendDelay
        /\ CurStep.k # "send_recv" => q_deadline = q_tmo
        /\ ~q_overran => q_now <= q_deadline

C5_Witness ==
    /\ q_pc = "got"
    /\ CurStep.k = "send_recv"
    /\ q_skips = MaxSkips
    /\ ~q_overran
    /\ q_got.kind = "Timeout"
    /\ ~q_got.called
    /\ q_now = q_deadline

(* C5 (as stated): no helper returns later than T after its entry when     *)
(* every recv_timeout call honoured its argument.                          *)
C5_WithinTimeoutOfEntry ==
    (q_pc \in {"loop", "got"} /\ CurStep.k \in DeadlineHelpers /\ ~q_overran)
        => q_now <= q_tmo

(* C7: in complete_shot the wait for the IDLE shot-text is bounded by a    *)
(* deadline that incoming messages do not restart: when every recv_timeout *)
(* call honoured its argument the wait is over TIMEOUT after it began.     *)
C7_IdleDrainBounded ==
    (q_fn = "complete_shot" /\ q_pc \in {"loop", "got"}
        /\ CurStep.k = "drain_idle" /\ ~q_overran) => q_now <= TIMEOUT

\* the envelopes send_recv is to return for a command sent to dest
Qualifies(env, dest) ==
    /\ env.src = dest
    /\ env.msg \notin {"Text", "DspDebug", "CamState", "ModeAck", "ConfigNack",
                       "Unknown"}

(* C8: send_recv writes its command exactly once, and a failed write ends  *)
(* the function with the error, without a receive; after the write every   *)
(* received envelope that does not qualify is skipped and the first one    *)
(* that qualifies (source = dest, not one of the six skipped variants) is  *)
(* the one returned.                                                       *)
C8_SendRecv ==
    [][ (q_step >= 1 /\ q_pc \in {"send", "loop", "got"}
            /\ CurStep.k = "send_recv") =>
          /\ q_pc = "send" =>
                /\ Len(q_sent') = Len(q_sent) + 1
                /\ q_sent'[Len(q_sent')].cmd = CurStep.cmd
                /\ q_sent'[Len(q_sent')].dest = CurStep.dest
                /\ IF q_sent'[Len(q_sent')].ok
                   THEN q_pc' = "loop"
                   ELSE q_pc' = "done" /\ q_result' = "Io"
          /\ q_pc \in {"loop", "got"} => q_sent' = q_sent
          /\ (q_pc = "got" /\ q_got.kind = "Ok") =>
                IF Qualifies(q_got.env, CurStep.dest)
                THEN /\ q_pc' = "done" \/ q_step' = q_step + 1
                     /\ q_ret' = q_got.env
                ELSE q_pc' = "loop" /\ q_step' = q_step /\ q_ret' = q_ret
      ]_vars

C8_Witness ==
    /\ q_fn = "keepalive"
    /\ q_pc = "done"
    /\ q_result = "Protocol"
    /\ q_step = 1
    /\ q_skips = MaxSkips
    /\ Len(q_sent) = 1
    /\ q_ret = Env("Dsp", "ConfigAck", {})

\* the number of conn.send calls of the first i steps of a script
RECURSIVE SendsUpTo(_, _)
SendsUpTo(script, i) ==
    IF i = 0 THEN 0
    ELSE SendsUpTo(script, i - 1)
         + (IF script[i].k \in {"send_recv", "send"} THEN 1 ELSE 0)

(* C9: in every phase function, when the exchange of a step ends with an   *)
(* envelope that is not of the expected variant, the function returns      *)
(* ConnError::Protocol in that very step: it returns no Ok value and has   *)
(* sent no command of a later step.                                        *)
C9_ProtocolAtOnce ==
    [][ (q_fn \in Phases /\ q_pc = "got" /\ q_got.kind = "Ok"
            /\ ~(q_pc' = "loop" /\ q_step' = q_step)
            /\ CurStep.k \in {"send_recv", "recv_skip_ack"}
            /\ q_got.env.msg # CurStep.expect) =>
          /\ q_pc' = "done"
          /\ q_result' = "Protocol"
          /\ q_step' = q_step
          /\ q_sent' = q_sent
          /\ Len(q_sent') = SendsUpTo(CurScript, q_step)
      ]_vars

C9_Witness ==
    /\ q_fn = "sync_avr"
    /\ q_pc = "done"
    /\ q_result = "Protocol"
    /\ q_step = 3
    /\ Len(q_sent) = 3
    /\ q_ret = Env("Avr", "ConfigAck", {})

(* C10: arm and complete_shot return Ok only on a Text that holds "ARMED"  *)
(* and not "CANCELLED", received in the wait that follows the ConfigAck    *)
(* for AvrConfigCmd{arm=true}, and received before the deadline of that    *)
(* wait: a text that comes later gives Timeout.                            *)
C10_ArmedBeforeDeadline ==
    (q_fn \in {"arm", "complete_shot"} /\ q_pc = "done" /\ q_result = "Ok") =>
        /\ CurStep.k = "wait_for_armed"
        /\ \E i \in 1..(q_step - 1) :
              /\ q_sent[SendsUpTo(CurScript, i)].cmd = Cmd("AvrConfigCmd", 1)
              /\ CurScript[i].expect = "ConfigAck"
        /\ q_ret.msg = "Text"
        /\ "ARMED" \in q_ret.text
        /\ "CANCELLED" \notin q_ret.text
        /\ q_now <= q_deadline

\* the commands of the post-shot cycle, as the specification lists them
PostShotCmds ==
    << Cmd("ShotDataAck", 0), Cmd("ShotDataAck", 0), Cmd("ConfigQuery", 0),
       Cmd("ShotResultReq", 0), Cmd("AvrConfigCmd", 1) >>

(* C11: complete_shot writes ShotDataAck, ShotDataAck, ConfigQuery,        *)
(* ShotResultReq, AvrConfigCmd{arm=true} in this order and all to AVR; no  *)
(* recv_timeout call is made before both ShotDataAcks are written; when    *)
(* ConfigQuery is written the envelope last taken is a ShotText with       *)
(* "IDLE"; Ok is returned only with all five written and on the ARMED text.*)
C11_CompleteShotOrder ==
    [][ q_fn' = "complete_shot" =>
          /\ Len(q_sent') <= Len(PostShotCmds)
          /\ \A i \in 1..Len(q_sent') :
                q_sent'[i].cmd = PostShotCmds[i] /\ q_sent'[i].dest = "Avr"
          /\ q_got'.called =>
                Len(q_sent') >= 2 /\ q_sent'[1].ok /\ q_sent'[2].ok
          /\ (Len(q_sent) = 2 /\ Len(q_sent') = 3) =>
                q_ret.msg = "ShotText" /\ "IDLE" \in q_ret.text
          /\ q_result' = "Ok" =>
                /\ Len(q_sent') = Len(PostShotCmds)
                /\ q_ret'.msg = "Text"
                /\ "ARMED" \in q_ret'.text
      ]_vars

C11_Witness ==
    /\ q_fn = "complete_shot"
    /\ q_pc = "done"
    /\ q_result = "Ok"
    /\ Len(q_sent) = 5
    /\ q_ret = Env("Avr", "Text", {"ARMED"})

(* C12: in the wait that follows ConfigQuery in complete_shot a ModeAck    *)
(* and a ConfigResp are noted in either order and every other envelope is  *)
(* dropped; with both noted, or on a Timeout, complete_shot goes on to     *)
(* write ShotResultReq without failing; a Disconnected, Io or Wire error   *)
(* is returned by complete_shot.                                           *)
C12_ConfigQueryWait ==
    [][ (q_fn = "complete_shot" /\ Len(q_sent) = 3 /\ q_sent[3].ok) =>
          /\ (q_pc = "got" /\ q_deadline # -1 /\ q_got.kind = "Ok") =>
                LET mode == q_flags.mode \/ q_got.env.msg = "ModeAck"
                    cfg  == q_flags.cfg \/ q_got.env.msg = "ConfigResp"
                IN  IF mode /\ cfg
                    THEN q_pc' = "send" /\ q_result' = "none"
                    ELSE /\ q_pc' = "loop"
                         /\ q_flags' = [mode |-> mode, cfg |-> cfg]
                         /\ q_result' = "none"
          /\ (q_pc = "got" /\ q_deadline # -1 /\ q_got.kind = "Timeout") =>
                q_pc' = "send" /\ q_result' = "none"
          /\ (q_pc = "got" /\ q_deadline # -1
                /\ q_got.kind \in {"Disconnected", "Io", "Wire"}) =>
                q_pc' = "done" /\ q_result' = q_got.kind
          /\ q_pc = "send" =>
                /\ Len(q_sent') = 4
                /\ q_sent'[4].cmd = Cmd("ShotResultReq", 0)
      ]_vars

C12_Witness ==
    /\ q_fn = "complete_shot"
    /\ Len(q_sent) = 3
    /\ q_pc = "got"
    /\ q_deadline # -1
    /\ q_flags = [mode |-> FALSE, cfg |-> TRUE]
    /\ q_skips >= 1
    /\ q_got.kind = "Timeout"

\* the commands of phase 1 and the responses they are answered with, as the
\* specification lists them
DspSyncCmds ==
    << Cmd("StatusPoll", 0), Cmd("DspQuery", 0), Cmd("DevInfoReq", 0),
       Cmd("ProdInfoReq", 0), Cmd("ProdInfoReq", 8), Cmd("ProdInfoReq", 9),
       Cmd("ConfigQuery", 0) >>
DspSyncResps ==
    << "DspStatus", "DspQueryResp", "DevInfoResp", "ProdInfoResp", "ProdInfoResp",
       "ProdInfoResp", "ConfigResp" >>

(* C13: sync_dsp writes StatusPoll, DspQuery, DevInfoReq, ProdInfoReq(00), *)
(* ProdInfoReq(08), ProdInfoReq(09), ConfigQuery in this order, all to the *)
(* DSP bus; command n+1 is written only when the exchange of command n has *)
(* returned its expected response from the DSP, so that at most one        *)
(* command is unanswered; Ok is returned only after all seven responses.   *)
C13_SyncDspOrder ==
    [][ q_fn' = "sync_dsp" =>
          /\ Len(q_sent') <= Len(DspSyncCmds)
          /\ \A i \in 1..Len(q_sent') :
                q_sent'[i].cmd = DspSyncCmds[i] /\ q_sent'[i].dest = "Dsp"
          /\ (Len(q_sent) >= 1 /\ Len(q_sent') = Len(q_sent) + 1) =>
                /\ q_sent[Len(q_sent)].ok
                /\ q_ret = Env("Dsp", DspSyncResps[Len(q_sent)], {})
                /\ q_pc = "send"
          /\ (q_pc = "got" /\ q_pc' = "send") =>
                q_ret' = Env("Dsp", DspSyncResps[Len(q_sent)], {})
          /\ q_result' = "Ok" =>
                /\ Len(q_sent') = Len(DspSyncCmds)
                /\ q_ret' = Env("Dsp", DspSyncResps[Len(DspSyncCmds)], {})
      ]_vars

C13_Witness ==
    /\ q_fn = "sync_dsp"
    /\ q_pc = "done"
    /\ q_result = "Ok"
    /\ Len(q_sent) = Len(DspSyncCmds)

\* what phase 4 is to write for np parameters, and the response each command
\* is awaited with, as the specification lists them
RECURSIVE AvrParamWrites(_)
AvrParamWrites(n) ==
    IF n = 0 THEN <<>>
    ELSE AvrParamWrites(n - 1)
         \o << <<Cmd("ParamValue", n), "ConfigAck">>,
               <<Cmd("AvrConfigCmd", 0), "ConfigAck">> >>
AvrConfigPlan(np) ==
    AvrParamWrites(np)
    \o << <<Cmd("ModeSet", 0), "ModeSet">>, <<Cmd("AvrConfigCmd", 0), "ConfigAck">>,
          <<Cmd("RadarCal", 0), "RadarCal">>, <<Cmd("AvrConfigCmd", 0), "ConfigAck">> >>

(* C14: configure_avr writes, all to AVR, for each parameter in caller     *)
(* order ParamValue then AvrConfigCmd{arm=false}, then ModeSet, a commit,  *)
(* RadarCal, a commit; each command is written only after the one before   *)
(* it was answered by its ConfigAck (or echo) from AVR; on Ok exactly      *)
(* 2*|params| + 4 commands were written; AvrConfigCmd{arm=true} is never   *)
(* written.                                                                *)
C14_ConfigureAvrOrder ==
    [][ q_fn' = "configure_avr" =>
          LET plan == AvrConfigPlan(q_np') IN
          /\ Len(q_sent') <= 2 * q_np' + 4
          /\ \A i \in 1..Len(q_sent') :
                /\ q_sent'[i].cmd = plan[i][1]
                /\ q_sent'[i].dest = "Avr"
                /\ q_sent'[i].cmd # Cmd("AvrConfigCmd", 1)
          /\ (Len(q_sent) >= 1 /\ Len(q_sent') = Len(q_sent) + 1) =>
                /\ q_sent[Len(q_sent)].ok
                /\ q_ret = Env("Avr", plan[Len(q_sent)][2], {})
          /\ q_result' = "Ok" =>
                /\ Len(q_sent') = 2 * q_np' + 4
                /\ q_ret' = Env("Avr", "ConfigAck", {})
      ]_vars

C14_Witness ==
    /\ q_fn = "configure_avr"
    /\ q_np = MaxParams
    /\ q_pc = "done"
    /\ q_result = "Ok"
    /\ Len(q_sent) = 2 * MaxParams + 4

\* the field of AvrSync the last calibration request is about
CalField == IF q_sent[Len(q_sent)].cmd.name = "CalDataReq" THEN "factory" ELSE "ifcal"

\* the envelopes the claim lets pass unanswered after a calibration request
CalNoise(env) ==
    env.msg \in {"ConfigAck", "ConfigNack", "Text"} \/ env.src # "Avr"

(* C15: in sync_avr, after CalDataReq or CalParamReq, a ConfigAck,         *)
(* ConfigNack, Text or wrong-bus envelope is passed over; a Timeout makes  *)
(* the field (factory_cal / if_cal) None and sync_avr goes on with the     *)
(* next command; once the per-exchange timeout has passed the field is no  *)
(* longer set; a Disconnected, Io or Wire error ends sync_avr.             *)
C15_CalOptional ==
    [][ (q_fn = "sync_avr" /\ q_pc = "got" /\ CurStep.k = "recv_skip_ack") =>
          /\ (q_got.kind = "Ok" /\ CalNoise(q_got.env)) =>
                q_pc' = "loop" /\ q_cal' = q_cal /\ q_result' = "none"
          /\ q_got.kind = "Timeout" =>
                /\ q_cal' = [q_cal EXCEPT ![CalField] = "None"]
                /\ q_pc' = "send"
                /\ q_result' = "none"
          /\ q_now > q_deadline => q_cal'[CalField] # "Some"
          /\ q_got.kind \in {"Disconnected", "Io", "Wire"} =>
                q_pc' = "done" /\ q_result' = q_got.kind
      ]_vars

(* C16: for every frame whose type id has no arm in Message::decode, and    *)
(* for a status frame (0xAA) whose source is App, Message::decode returns   *)
(* Ok(Unknown) carrying the type id, the source and the payload of the      *)
(* frame unchanged, whatever the payload; it never returns an error.        *)
C16_UnknownTotal ==
    (/\ m_pc = "decoded"
     /\ \/ m_frame.type_id \notin DecodedTypes
        \/ m_frame.type_id = TYPE_STATUS /\ m_frame.src = "App")
    => m_out = [ok |-> TRUE, err |-> "none", msg |-> "Unknown",
                type_id |-> m_frame.type_id, src |-> m_frame.src,
                payload |-> m_frame.payload]

C16_Witness ==
    /\ m_pc = "decoded"
    /\ m_frame.type_id \notin DecodedTypes
    /\ m_frame.src = "Dsp"
    /\ Len(m_frame.payload) = MaxUnknownPayload
    /\ m_out.msg = "Unknown"
    /\ m_out.payload = m_frame.payload

\* the length below which a decoder has nothing to decode its message from:
\* the length its source tests the payload against (0 where it tests none)
MinLength(frame) ==
    LET t == frame.type_id
        p == frame.payload
    IN  CASE t = TYPE_STATUS /\ frame.src = "Avr" -> 25
          [] t = TYPE_STATUS /\ frame.src = "Dsp" ->
                IF p # <<>> /\ p[1] = 128 THEN 64 ELSE 2
          [] t \in {TYPE_CONFIG_ACK, TYPE_CONFIG_NACK, TYPE_MODE_ACK, TYPE_MODE_SET,
                    TYPE_DSP_QUERY_RESP} -> 3
          [] t = TYPE_PARAM_VALUE ->
                IF p = <<>> THEN 1 ELSE IF p[1] = 6 THEN 7 ELSE IF p[1] = 8 THEN 9 ELSE 1
          [] t = TYPE_RADAR_CAL -> 7
          [] t = TYPE_CONFIG_RESP -> 69
          [] t = TYPE_TIME_SYNC -> 9
          [] t = TYPE_CAM_STATE -> 2
          [] t = TYPE_CAM_CONFIG -> 52
          [] t = TYPE_CAM_IMAGE_AVAIL -> IF p # <<>> /\ p[1] = 66 THEN 67 ELSE 1
          [] t = TYPE_FLIGHT_RESULT -> 157
          [] t = TYPE_FLIGHT_RESULT_V1 -> 94
          [] t = TYPE_CLUB_RESULT -> 167
          [] t = TYPE_SPIN_RESULT -> 138
          [] t = TYPE_SPEED_PROFILE -> 12
          [] t = TYPE_TRACKING_STATUS -> 82
          [] t = TYPE_PRC_DATA -> 4
          [] OTHER -> 0

(* C17: Message::decode fails closed on malformed known types: for every   *)
(* type id with an arm, a payload shorter than the minimum length of that  *)
(* message yields PayloadTooShort or UnexpectedLength, never a decoded     *)
(* message.                                                                *)
C17_FailsClosed ==
    (/\ m_pc = "decoded"
     /\ m_frame.type_id \in DecodedTypes
     /\ Len(m_frame.payload) < MinLength(m_frame))
    => (~m_out.ok /\ m_out.err \in {"PayloadTooShort", "UnexpectedLength"})

(* C18: a recv_timeout call whose stream.read timed out (WouldBlock or      *)
(* TimedOut) returns ConnError::Timeout, and one whose stream.read returned *)
(* zero bytes returns ConnError::Disconnected; Timeout is returned for no   *)
(* other read and Disconnected for no other read, also when bytes of an     *)
(* incomplete frame had arrived before.                                     *)
C18_TimeoutOrDisconnected ==
    k_ret.timeout # 0 =>
        /\ k_ret.read \in {"WouldBlock", "TimedOut"} <=> k_ret.kind = "Timeout"
        /\ k_ret.read = "eof" <=> k_ret.kind = "Disconnected"

\* a short read (the first bytes of a frame), then the read timeout
C18_Witness ==
    /\ k_ret.timeout # 0
    /\ k_ret.read = "TimedOut"
    /\ k_ret.kind = "Timeout"
    /\ k_buf # <<>>
    /\ ~k_closed

(* C19: the on-send observer has been called once for each send call, with *)
(* the command and the destination of the call, already when the call has  *)
(* written nothing yet and also when its write then failed; the on-recv    *)
(* observer has been called once for each envelope recv returned, in the   *)
(* order they were returned, and for nothing else: not for a frame that    *)
(* RawFrame::parse or Message::decode rejected.                            *)
C19_Observers ==
    /\ o_on_send = o_calls
    /\ \A i \in o_written : i <= Len(o_on_send)
    /\ o_pc = "write" => Len(o_calls) \notin o_written
    /\ o_on_recv = k_delivered

\* a send call whose write failed, an envelope returned and a frame rejected
C19_Witness ==
    /\ o_pc = "idle"
    /\ o_calls # <<>>
    /\ o_written = {}
    /\ o_on_send = o_calls
    /\ k_ret.kind = "Wire"
    /\ k_delivered # <<>>
    /\ o_on_recv = k_delivered

\* the wire position at which fr_wire differs from encode(fr_in)
FlipPos == CHOOSE i \in 1..Len(fr_wire) : fr_wire[i] # encode(fr_in)[i]

\* the changed byte was a checksum byte written as it is (neither the ESC
\* nor the code of an escaped one) and was not replaced by ESC
PlainFlip ==
    LET o == encode(fr_in) IN
    /\ o[FlipPos] # ESC
    /\ o[FlipPos - 1] # ESC
    /\ fr_wire[FlipPos] # ESC

\* the changed byte was the code of an escaped checksum byte and was
\* replaced by another of the four codes
CodeFlip ==
    /\ encode(fr_in)[FlipPos - 1] = ESC
    /\ fr_wire[FlipPos] \in 1..4

(* C20 (as amended): replacing a checksum byte of a valid wire frame by a   *)
(* different value makes RawFrame::parse return ChecksumMismatch when the   *)
(* change leaves the escape sequences as they were: a byte written plain is *)
(* replaced by a value other than ESC (0xFD), or the code of an escaped     *)
(* checksum byte is replaced by another of the codes 1..4.                  *)
C20_PlainFlipMismatch ==
    (c_pc = "parsed_flipped" /\ (PlainFlip \/ CodeFlip))
        => fr_out = WireErr("ChecksumMismatch")

\* the high byte of the checksum replaced by the start marker
C20_Witness ==
    /\ c_pc = "parsed_flipped"
    /\ PlainFlip
    /\ FlipPos = Len(fr_wire) - 2
    /\ fr_wire[FlipPos] = START
    /\ fr_out = WireErr("ChecksumMismatch")

(* C20: replacing any checksum byte of a valid wire frame by any different  *)
(* byte value makes RawFrame::parse return ChecksumMismatch.                *)
C20_AnyFlipMismatch ==
    c_pc = "parsed_flipped" => fr_out = WireErr("ChecksumMismatch")

---------------------------------------------------------------------------
(* frame.rs tests: the worked example                                      *)

\* RawFrame { dest: Dsp, src: App, type_id: 0xAA, payload: [0x01, 0x01] }
WorkedFrame ==
    [dest |-> "Dsp", src |-> "App", type_id |-> TYPE_STATUS, payload |-> <<1, 1>>]

\* F0 40 10 AA 01 01 00 FC F1
WorkedWire == <<240, 64, 16, 170, 1, 1, 0, 252, 241>>

\* C21: encoding {dest=Dsp, src=App, type=0xAA, payload=[01,01]} yields
\* exactly the bytes F0 40 10 AA 01 01 00 FC F1 (the checksum is the plain
\* byte sum 0x00FC, high byte first), and parsing those bytes yields that
\* frame.
C21_WorkedExample ==
    fr_in = WorkedFrame =>
        /\ c_pc # "start" =>
              /\ fr_wire = WorkedWire
              /\ SumBytes(<<64, 16, 170, 1, 1>>) = 252
              /\ <<fr_wire[7], fr_wire[8]>> = <<0, 252>>
        /\ c_pc = "parsed" => fr_out = [ok |-> TRUE, frame |-> WorkedFrame]

\* the worked frame has been encoded and its bytes parsed
C21_Witness ==
    /\ fr_in = WorkedFrame
    /\ c_pc = "parsed"
    /\ fr_wire = WorkedWire
    /\ fr_out.ok

---------------------------------------------------------------------------
(* addr.rs, frame.rs: bus addresses                                        *)

AddrBytes == {16, 18, 48, 64}

\* C22: BusAddr::from_byte accepts exactly 0x10, 0x12, 0x30 and 0x40 and is
\* the inverse of as_byte; RawFrame::parse returns UnknownBusAddr for a
\* frame with a matching checksum whose destination or source byte has any
\* other value, so every RawFrame it returns has valid addresses.
C22_ValidAddresses ==
    /\ \A i \in 1..Len(fr_hdr) :
          /\ from_byte(fr_hdr[i]).ok <=> fr_hdr[i] \in AddrBytes
          /\ from_byte(fr_hdr[i]).ok => as_byte(from_byte(fr_hdr[i]).addr) = fr_hdr[i]
    /\ \A a \in BusAddr : from_byte(as_byte(a)) = [ok |-> TRUE, addr |-> a]
    /\ c_pc = "parsed" /\ fr_hdr # <<>> =>
          IF fr_hdr[1] \in AddrBytes /\ fr_hdr[2] \in AddrBytes
          THEN /\ fr_out.ok
               /\ as_byte(fr_out.frame.dest) = fr_hdr[1]
               /\ as_byte(fr_out.frame.src) = fr_hdr[2]
          ELSE fr_out = WireErr("UnknownBusAddr")
    /\ c_pc \in {"parsed", "parsed_flipped"} /\ fr_out.ok =>
          /\ fr_out.frame.dest \in BusAddr
          /\ fr_out.frame.src \in BusAddr

\* a frame with a valid destination and the source byte 0xF0 (stuffed on the
\* wire) was parsed and refused for its address
C22_Witness ==
    /\ c_pc = "parsed"
    /\ fr_hdr = <<64, 240>>
    /\ fr_out = WireErr("UnknownBusAddr")

---------------------------------------------------------------------------
(* codec.rs: round trips                                                   *)

IntKinds == {"INT16", "UINT16", "INT24", "UINT24", "INT32", "UINT32"}

\* C24: for every integer width (INT16, UINT16, INT24, UINT24, INT32,
\* UINT32) and every x in its representable range, reading back the
\* big-endian bytes written for x returns x; INT24 reads sign-extend from
\* 24 bits (FF FF FF reads as -1, 80 00 00 as -2^23, 7F FF FF as 2^23 - 1).
C24_IntRoundTrip ==
    /\ n_pc = "read" /\ n_kind \in IntKinds =>
          /\ Len(n_bytes) = n_off + Width(n_kind)
          /\ n_out = Ok(n_val)
    /\ n_pc = "read_raw" /\ n_kind = "INT24" /\ Len(n_bytes) = n_off + 3 =>
          LET raw == SubSeq(n_bytes, n_off + 1, n_off + 3)
          IN  /\ n_out.ok
              /\ n_out.val \in -8388608..8388607
              /\ to_be_bytes(n_out.val, 3) = raw
              /\ n_out.val < 0 <=> raw[1] >= 128
              /\ raw = <<255, 255, 255>> => n_out.val = -1
              /\ raw = <<128, 0, 0>> => n_out.val = -8388608
              /\ raw = <<127, 255, 255>> => n_out.val = 8388607

\* the least INT24 was written after one other byte and read back
C24_Witness ==
    /\ n_pc = "read"
    /\ n_kind = "INT24"
    /\ n_val = -8388608
    /\ n_bytes = <<255, 128, 0, 0>>
    /\ n_out = Ok(-8388608)

\* the five bytes of the FLOAT40 at n_off, when the buffer holds them
Float40Bytes == SubSeq(n_bytes, n_off + 1, n_off + 5)

\* C25: read_float40 returns 0.0 whenever the 24-bit mantissa is zero,
\* whatever the two exponent bytes are, and never raises InvalidFloat40;
\* write_float40(0.0) emits exactly five zero bytes.
C25_Float40Zero ==
    n_kind = "FLOAT40" =>
        /\ n_pc \in {"read", "read_raw"} =>
              /\ n_out.ok <=> Len(n_bytes) >= n_off + 5
              /\ ~n_out.ok => n_out.err = "PayloadTooShort"
              /\ n_out.ok /\ SubSeq(Float40Bytes, 3, 5) = <<0, 0, 0>> =>
                    n_out = Ok(F64Zero)
        /\ n_pc \in {"written", "read"} /\ n_val = F64(0, 0, 0, 0) =>
              n_bytes = Pad(n_off) \o <<0, 0, 0, 0, 0>>

\* bytes with the exponent 0x80FF over a zero mantissa were read as 0.0
C25_Witness ==
    /\ n_pc = "read_raw"
    /\ n_kind = "FLOAT40"
    /\ n_bytes = <<128, 255, 0, 0, 0>>
    /\ n_out = Ok(F64Zero)

\* 0.0 was written as five zero bytes and read back
C25_WrittenZero ==
    /\ n_pc = "read"
    /\ n_kind = "FLOAT40"
    /\ n_val = F64(0, 0, 0, 0)
    /\ n_bytes = <<0, 0, 0, 0, 0>>
    /\ n_out = Ok(F64Zero)

\* Exact arithmetic on naturals beyond 2^31: a natural is the sequence of
\* its base-1000 digits, least significant first, without leading zeros.
RECURSIVE BigOf(_)
BigOf(n) == IF n = 0 THEN <<>> ELSE <<n % 1000>> \o BigOf(n \div 1000)

RECURSIVE BigTrim(_)
BigTrim(a) ==
    IF a # <<>> /\ a[Len(a)] = 0 THEN BigTrim(SubSeq(a, 1, Len(a) - 1)) ELSE a

Digit(a, i) == IF i <= Len(a) THEN a[i] ELSE 0

RECURSIVE BigAddFrom(_, _, _, _)
BigAddFrom(a, b, i, carry) ==
    IF i > Len(a) /\ i > Len(b) THEN BigOf(carry)
    ELSE LET s == Digit(a, i) + Digit(b, i) + carry
         IN  <<s % 1000>> \o BigAddFrom(a, b, i + 1, s \div 1000)

BigAdd(a, b) == BigAddFrom(a, b, 1, 0)

\* a - b for a >= b
RECURSIVE BigSubFrom(_, _, _, _)
BigSubFrom(a, b, i, borrow) ==
    IF i > Len(a) THEN <<>>
    ELSE LET s == Digit(a, i) - Digit(b, i) - borrow
         IN  <<s % 1000>> \o BigSubFrom(a, b, i + 1, IF s < 0 THEN 1 ELSE 0)

RECURSIVE BigLessFrom(_, _, _)
BigLessFrom(a, b, i) ==
    IF i = 0 THEN FALSE
    ELSE IF a[i] # b[i] THEN a[i] < b[i]
    ELSE BigLessFrom(a, b, i - 1)

BigLess(a, b) ==
    IF Len(a) # Len(b) THEN Len(a) < Len(b) ELSE BigLessFrom(a, b, Len(a))

BigDist(a, b) ==
    IF BigLess(a, b) THEN BigTrim(BigSubFrom(b, a, 1, 0))
    ELSE BigTrim(BigSubFrom(a, b, 1, 0))

\* a * k for k <= 2^15
RECURSIVE BigMulFrom(_, _, _, _)
BigMulFrom(a, k, i, carry) ==
    IF i > Len(a) THEN BigOf(carry)
    ELSE LET s == a[i] * k + carry
         IN  <<s % 1000>> \o BigMulFrom(a, k, i + 1, s \div 1000)

\* a * 2^k
RECURSIVE BigShl(_, _)
BigShl(a, k) ==
    IF k >= 15 THEN BigShl(BigMulFrom(a, 32768, 1, 0), k - 15)
    ELSE BigMulFrom(a, 2 ^ k, 1, 0)

BigTimesMillion(a) == IF a = <<>> THEN <<>> ELSE <<0, 0>> \o a

Abs(x) == IF x < 0 THEN -x ELSE x

\* |d - v| / |v| < 1e-6 for a normal f64 v = +-(2^52 + mant) * 2^(ieee_exp - 1075)
\* and a product d = mant * 2^exp2, both brought to the lesser exponent
RelErrBelow1e6(v, d) ==
    LET k == d.exp2 - (v.ieee_exp - 1075)
        R == BigShl(BigOf(Abs(d.mant)), IF k > 0 THEN k ELSE 0)
        V == BigShl(BigAdd(BigShl(BigOf(4194304 + v.mant_hi), 30), BigOf(v.mant_lo)),
                    IF k < 0 THEN -k ELSE 0)
        E == IF (d.mant < 0) = (v.sign = 1) THEN BigDist(R, V) ELSE BigAdd(R, V)
    IN  BigLess(BigTimesMillion(E), V)

\* C26: FLOAT40 round-trips with relative error below 1e-6: for each value v
\* in {1.0, -1.0, 12.5, 100.0, 0.0254, -2.3, 0.001, 999.999},
\* |read_float40(write_float40(v)) - v| / |v| < 1e-6, and write_float40(1.0)
\* emits 00 01 40 00 00.
C26_Float40RoundTrip ==
    /\ n_kind = "FLOAT40"
    /\ n_pc \in {"written", "read"}
    /\ \E i \in 1..Len(RoundTripValues) : n_val = RoundTripValues[i]
    =>
        /\ n_pc = "read" =>
              /\ n_out.ok
              /\ RelErrBelow1e6(n_val, n_out.val)
        /\ n_val = RoundTripValues[1] => n_bytes = Pad(n_off) \o <<0, 1, 64, 0, 0>>

\* 0.0254, whose f64 has set bits below the 23 that FLOAT40 keeps, was
\* written as FF FB 68 09 D4 and read back as 6818260 * 2^-28
C26_Witness ==
    /\ n_pc = "read"
    /\ n_kind = "FLOAT40"
    /\ n_val = RoundTripValues[5]
    /\ n_bytes = <<255, 251, 104, 9, 212>>
    /\ n_out = Ok([mant |-> 6818260, exp2 |-> -28])

---------------------------------------------------------------------------
(* protocol/status.rs: DspStatus                                           *)

\* a STATUS frame from the DSP has been decoded
DspStatusDecoded ==
    /\ m_pc = "decoded"
    /\ m_frame.type_id = TYPE_STATUS
    /\ m_frame.src = "Dsp"

\* the decoded DspStatus is the placeholder variant: it keeps the raw bytes
\* and its accessors return 0, false and 0.0
IsPlaceholder ==
    /\ m_out.ok
    /\ m_out.msg = "DspStatus"
    /\ m_out.payload.variant = "V46"
    /\ m_out.payload.payload = m_frame.payload
    /\ battery_percent(m_out.payload) = 0
    /\ external_power(m_out.payload) = FALSE
    /\ temperature_c(m_out.payload) = 0

\* the part of C23 about the version byte 0x80: the Gen1 variant, or an error
\* when the payload is shorter than 64 bytes
Gen1OrError ==
    LET p == m_frame.payload
    IN  Len(p) >= 1 /\ p[1] = 128 =>
            IF Len(p) < 64 THEN m_out = MsgErr("PayloadTooShort")
            ELSE /\ m_out.ok
                 /\ m_out.msg = "DspStatus"
                 /\ m_out.payload.variant = "V80"
                 /\ battery_percent(m_out.payload) = p[62]

\* C23 (amended): DspStatus::decode refuses a payload of fewer than 2 bytes
\* and otherwise selects the variant by payload[0] alone: 0x80 yields the
\* Gen1 variant (a 0x80 payload shorter than 64 bytes is an error, never a
\* fallback to the placeholder); any other version byte yields the
\* placeholder variant, which keeps the raw bytes and whose battery_percent,
\* external_power and temperature_c accessors return 0, false and 0.0.
C23_VariantByVersion ==
    DspStatusDecoded =>
        LET p == m_frame.payload
        IN  /\ Len(p) < 2 => m_out = MsgErr("PayloadTooShort")
            /\ Gen1OrError
            /\ Len(p) >= 2 /\ p[1] # 128 => IsPlaceholder

\* a 71-byte payload of version 0x46 was decoded as the placeholder
C23_Witness ==
    /\ DspStatusDecoded
    /\ Len(m_frame.payload) = 71
    /\ m_frame.payload[1] = 70
    /\ IsPlaceholder

\* a 0x80 payload of 63 bytes was refused
C23_ShortGen1 ==
    /\ DspStatusDecoded
    /\ Len(m_frame.payload) = 63
    /\ m_frame.payload[1] = 128
    /\ ~m_out.ok

\* C23 as stated: every version byte other than 0x80 yields the placeholder
C23_AnyOtherVersion ==
    DspStatusDecoded =>
        LET p == m_frame.payload
        IN  /\ Gen1OrError
            /\ Len(p) >= 1 /\ p[1] # 128 => IsPlaceholder

---------------------------------------------------------------------------
(* seq.rs: keepalive                                                       *)

\* the polls of keepalive as the specification lists them: the command, the
\* bus it goes to and the status variant of that bus
KeepalivePolls ==
    << <<Cmd("StatusPoll", 0), "Dsp", "DspStatus">>,
       <<Cmd("StatusPoll", 0), "Avr", "AvrStatus">>,
       <<Cmd("StatusPoll", 1), "Pi", "PiStatus">> >>

\* the reply the n-th poll is answered with
KeepaliveReply(n) == Env(KeepalivePolls[n][2], KeepalivePolls[n][3], {})

(* C27: keepalive polls DSP, then AVR, then PI with a StatusPoll each (PI   *)
(* in pi_mode), sending each poll only after the previous reply, and        *)
(* returns Ok with the three decoded statuses only if each bus answered     *)
(* with its own status variant.                                             *)
C27_KeepaliveOrder ==
    [][ q_fn' = "keepalive" =>
          /\ Len(q_sent') <= Len(KeepalivePolls)
          /\ \A i \in 1..Len(q_sent') :
                /\ q_sent'[i].cmd = KeepalivePolls[i][1]
                /\ q_sent'[i].dest = KeepalivePolls[i][2]
          /\ (Len(q_sent) >= 1 /\ Len(q_sent') = Len(q_sent) + 1) =>
                /\ q_sent[Len(q_sent)].ok
                /\ q_ret = KeepaliveReply(Len(q_sent))
                /\ q_pc = "send"
          /\ (q_pc = "got" /\ q_pc' = "send") =>
                q_ret' = KeepaliveReply(Len(q_sent))
          /\ q_result' = "Ok" =>
                /\ Len(q_sent') = Len(KeepalivePolls)
                /\ q_ret' = KeepaliveReply(Len(KeepalivePolls))
      ]_vars

\* keepalive has returned Ok after its three polls
C27_Witness ==
    /\ q_fn = "keepalive"
    /\ q_pc = "done"
    /\ q_result = "Ok"
    /\ Len(q_sent) = 3
    /\ q_ret = Env("Pi", "PiStatus", {})

---------------------------------------------------------------------------
(* conn.rs: pending frames and reads                                       *)

\* the number of wire bytes of each frame the device may write
WireLen == [f \in ConnFrames \cup ObsFrames |-> Len(encode(f))]

RECURSIVE StreamLen(_)
StreamLen(fs) == IF fs = <<>> THEN 0 ELSE WireLen[Head(fs)] + StreamLen(Tail(fs))

\* the number of bytes stream.read has returned so far
Consumed == StreamLen(k_sent) - Len(k_out) - Len(k_sock)

\* the frames of the device that lie wholly in the bytes read so far
FramesRead == {i \in 1..Len(k_sent) : StreamLen(SubSeq(k_sent, 1, i)) <= Consumed}

(* C28: Connection never reads from the TCP stream while its pending queue  *)
(* is non-empty: all frames split from earlier reads are returned by recv   *)
(* calls before the next read is attempted.                                 *)
C28_PendingBeforeRead ==
    /\ k_pc = "reading" =>
          /\ k_pending = <<>>
          /\ Len(k_delivered) = Cardinality(FramesRead)
          /\ {k_delivered[i] : i \in 1..Len(k_delivered)}
                = {EnvOf(k_sent[i]) : i \in FramesRead}
    /\ k_pc = "idle" => Len(k_delivered) + Len(k_pending) = Cardinality(FramesRead)

\* one read held two frames, both were returned by recv calls, and a third
\* recv call is blocked in the next read
C28_Witness ==
    /\ k_pc = "reading"
    /\ Len(k_delivered) = 2
    /\ Consumed = StreamLen(k_sent)
    /\ k_ret.read = "none"

\* one read held two frames: one was returned, the other is pending
C28_Pending ==
    /\ k_pc = "idle"
    /\ Len(k_pending) = 1
    /\ Len(k_delivered) = 1

---------------------------------------------------------------------------
(* seq.rs: complete_shot, steps 4 and 5                                    *)

\* conn.send is called with cmd in this step
Sends(cmd) ==
    /\ Len(q_sent') = Len(q_sent) + 1
    /\ q_sent'[Len(q_sent')].cmd = cmd

(* C29: in complete_shot, AvrConfigCmd{arm=true} is sent only after a       *)
(* ClubResult has been received in reply to ShotResultReq (the drain runs   *)
(* until a ClubResult arrives).                                             *)
C29_ArmAfterClubResult ==
    [][ q_fn = "complete_shot" /\ Sends(Cmd("AvrConfigCmd", 1)) =>
          /\ q_sent[Len(q_sent)].cmd = Cmd("ShotResultReq", 0)
          /\ q_ret.msg = "ClubResult"
      ]_vars

---------------------------------------------------------------------------
(* seq.rs: recv_skip_ack                                                   *)

\* the envelope is one recv_skip_ack(from, ..) does not pass over
AckQualifies(env, from) ==
    /\ env.src = from
    /\ env.msg \notin {"Text", "DspDebug", "ConfigAck", "ConfigNack", "Unknown"}

(* C30: recv_skip_ack returns the first envelope that comes from bus `from` *)
(* and is not Text, DspDebug, ConfigAck, ConfigNack or Unknown: any number  *)
(* of intermediate ConfigAcks before the real response are discarded, and   *)
(* if that first envelope is not the variant `extract` accepts it returns   *)
(* ConnError::Protocol instead of continuing to wait.                       *)
C30_RecvSkipAck ==
    [][ (q_pc = "got" /\ CurStep.k = "recv_skip_ack" /\ q_got.kind = "Ok") =>
          IF ~AckQualifies(q_got.env, CurStep.dest)
          THEN /\ q_pc' = "loop"
               /\ q_step' = q_step
               /\ q_result' = q_result
               /\ q_ret' = q_ret
          ELSE IF q_got.env.msg = CurStep.expect
          THEN /\ q_ret' = q_got.env
               /\ q_step' = q_step + 1
               /\ q_result' = q_result
          ELSE /\ q_pc' = "done"
               /\ q_result' = "Protocol"
               /\ q_step' = q_step
      ]_vars

\* sync_avr awaited the CalDataResp, passed over two envelopes and returned
\* Protocol at a CalParamResp from the AVR
C30_Witness ==
    /\ q_fn = "sync_avr"
    /\ q_pc = "done"
    /\ q_result = "Protocol"
    /\ CurStep = RecvSkipAckStep("Avr", "CalDataResp")
    /\ q_skips = 2
    /\ q_ret = Env("Avr", "CalParamResp", {})

\* two ConfigAcks were passed over and the CalDataResp is at hand
C30_AfterAcks ==
    /\ q_fn = "sync_avr"
    /\ q_pc = "got"
    /\ CurStep = RecvSkipAckStep("Avr", "CalDataResp")
    /\ q_skips = 2
    /\ q_got.kind = "Ok"
    /\ q_got.env = Env("Avr", "CalDataResp", {})

---------------------------------------------------------------------------
(* frame.rs: a checksum with reserved bytes                                *)

Reserved == {240, 241, 253, 250}

\* the wire form of a checksum byte as the protocol table gives it
OnWire(b) ==
    IF b = 240 THEN <<253, 1>>
    ELSE IF b = 241 THEN <<253, 2>>
    ELSE IF b = 253 THEN <<253, 3>>
    ELSE IF b = 250 THEN <<253, 4>>
    ELSE <<b>>

\* the stuffed DEST SRC TYPE PAYLOAD bytes of a frame
StuffedData(f) ==
    stuff_bytes(<<as_byte(f.dest), as_byte(f.src), f.type_id>> \o f.payload)

(* C31: when a checksum byte is itself a reserved value (F0, F1, FD, FA)    *)
(* encode escapes it and parse still recovers the frame: the received       *)
(* checksum is the last two unstuffed bytes, and the sum covers the stuffed *)
(* bytes up to the wire position of the first checksum byte (the FD of its  *)
(* escape pair when that byte is escaped).                                  *)
C31_StuffedChecksum ==
    c_pc = "parsed" =>
      LET sd       == StuffedData(fr_in)
          cs       == Sum16(sd)
          hi       == cs \div 256
          lo       == cs % 256
          interior == SubSeq(fr_wire, 2, Len(fr_wire) - 1)
          u        == Unstuff(interior, 0, <<>>)
          n        == Len(u.out)
      IN  (hi \in Reserved \/ lo \in Reserved) =>
            /\ interior = sd \o OnWire(hi) \o OnWire(lo)
            /\ fr_out.ok
            /\ fr_out.frame = fr_in
            /\ u.ok
            /\ <<u.out[n - 1][1], u.out[n][1]>> = <<hi, lo>>
            /\ u.out[n - 1][2] = Len(sd)
            /\ hi \in Reserved => interior[u.out[n - 1][2] + 1] = ESC

\* a frame whose checksum is F0 F0 was encoded and parsed back
C31_Witness ==
    /\ c_pc = "parsed"
    /\ Sum16(StuffedData(fr_in)) = 240 * 256 + 240
    /\ SubSeq(fr_wire, Len(fr_wire) - 4, Len(fr_wire)) = <<253, 1, 253, 1, END>>
    /\ fr_out.ok
    /\ fr_out.frame = fr_in

---------------------------------------------------------------------------
(* frame.rs: the checksum of a frame whose byte sum passes u16::MAX        *)

(* C38: the frame checksum is the sum of the stuffed DEST+SRC+TYPE+PAYLOAD  *)
(* bytes reduced modulo 2^16; encode and parse agree for frames whose byte  *)
(* sum exceeds 65535, so such frames round-trip instead of failing on       *)
(* 16-bit overflow.                                                         *)
C38_SumModulo ==
    (SumBytes(StuffedData(fr_in)) > 65535 /\ c_pc # "start") =>
      LET cs == SumBytes(StuffedData(fr_in)) % 65536 IN
      /\ c_pc \in {"encoded", "parsed"}
      /\ fr_wire = <<START>> \o StuffedData(fr_in) \o OnWire(cs \div 256)
                      \o OnWire(cs % 256) \o <<END>>
      /\ c_pc = "parsed" => (fr_out.ok /\ fr_out.frame = fr_in)

\* the same for the runs in which no sum panicked
C38_WhenWrapping ==
    (SumBytes(StuffedData(fr_in)) > 65535 /\ c_pc \in {"encoded", "parsed"}) =>
      LET cs == SumBytes(StuffedData(fr_in)) % 65536 IN
      /\ fr_wire = <<START>> \o StuffedData(fr_in) \o OnWire(cs \div 256)
                      \o OnWire(cs % 256) \o <<END>>
      /\ c_pc = "parsed" => (fr_out.ok /\ fr_out.frame = fr_in)

\* a frame with a byte sum beyond 65535 went through encode and parse
C38_Wrapped ==
    /\ c_pc = "parsed"
    /\ SumBytes(StuffedData(fr_in)) > 65535
    /\ fr_out.ok
    /\ fr_out.frame = fr_in

---------------------------------------------------------------------------
(* frame.rs: what lies between the markers of an emitted frame             *)

Least(S) == CHOOSE x \in S : \A y \in S : x <= y

\* the slices of the stream s from index from on: each one runs from the
\* first F0 to the first F1 after it, and the search goes on behind that F1
RECURSIVE Slices(_, _)
Slices(s, from) ==
    LET starts == {i \in from..Len(s) : s[i] = 240} IN
    IF starts = {} THEN <<>>
    ELSE LET a    == Least(starts)
             ends == {j \in (a + 1)..Len(s) : s[j] = 241}
         IN  IF ends = {} THEN <<>>
             ELSE <<SubSeq(s, a, Least(ends))>> \o Slices(s, Least(ends) + 1)

(* C32: between a buffered F0 and the next F1 the splitter accepts any      *)
(* bytes, including another F0: the emitted frame is the inclusive slice    *)
(* from the first buffered F0 to the first following F1, and an F0 inside   *)
(* that slice does not start a new frame.                                   *)
C32_FirstStartToFirstEnd ==
    /\ s_emitted = Slices(s_fed, 1)
    /\ \A k \in 1..Len(s_emitted) :
          LET e == s_emitted[k] IN
          /\ e[1] = 240
          /\ e[Len(e)] = 241
          /\ \A i \in 2..(Len(e) - 1) : e[i] # 241

\* an F0 was buffered by one call, later calls brought a second F0 and the
\* F1, and the frame handed out runs from the first F0
C32_Witness ==
    /\ s_fed = <<240, 7, 240, 241>>
    /\ s_calls >= 2
    /\ s_last = <<s_fed>>
    /\ s_emitted = <<s_fed>>

---------------------------------------------------------------------------
(* frame.rs: the buffer of the splitter between feed calls                 *)

\* the index behind the last slice of the stream s, searched from index from
RECURSIVE SlicedTo(_, _)
SlicedTo(s, from) ==
    LET starts == {i \in from..Len(s) : s[i] = 240} IN
    IF starts = {} THEN from
    ELSE LET ends == {j \in (Least(starts) + 1)..Len(s) : s[j] = 241} IN
         IF ends = {} THEN from ELSE SlicedTo(s, Least(ends) + 1)

\* the bytes of s from its first F0 on, none when it holds no F0
FromFirstStart(s) ==
    IF \E i \in 1..Len(s) : s[i] = 240
    THEN SubSeq(s, Least({i \in 1..Len(s) : s[i] = 240}), Len(s))
    ELSE <<>>

(* C39: after every FrameSplitter::feed call the internal buffer is either  *)
(* empty or starts with F0 and contains no F1; a buffer holding no F0 is    *)
(* cleared entirely, and bytes between an emitted frame's F1 and the next   *)
(* F0 are dropped.                                                          *)
C39_BufferShape ==
    s_calls >= 1 =>
      /\ \/ s_buf = <<>>
         \/ /\ s_buf[1] = 240
            /\ \A i \in 1..Len(s_buf) : s_buf[i] # 241
      /\ s_buf = FromFirstStart(SubSeq(s_fed, SlicedTo(s_fed, 1), Len(s_fed)))

\* a frame was emitted, the byte behind its F1 was dropped and the buffer
\* holds the bytes from the next F0 on
C39_Witness ==
    /\ s_fed = <<240, 241, 7, 240, 7>>
    /\ s_emitted = <<<<240, 241>>>>
    /\ s_buf = <<240, 7>>

\* bytes without an F0 were fed behind a frame and the buffer is empty
C39_Cleared ==
    /\ s_fed = <<240, 241, 7, 241, 7>>
    /\ s_calls >= 2
    /\ s_last = <<>>
    /\ s_buf = <<>>

---------------------------------------------------------------------------
(* frame.rs: encode, feed and parse in a row                               *)

\* the frame whose encoding is the wire frame w
Encoded(w) == CHOOSE f \in SplitFrames : encode(f) = w

---------------------------------------------------------------------------
(* conn.rs: every split frame is handed out once                           *)

\* this step is the return of a recv call: out of stream.read, or at once
\* with a frame taken from pending
Returns ==
    \/ k_pc = "reading" /\ k_pc' = "idle"
    \/ k_pc = "idle" /\ k_pc' = "idle" /\ Len(k_pending') < Len(k_pending)

\* this step hands a frame to the caller, as an envelope or as a Wire error
Hands == Returns /\ k_ret'.kind \in {"Ok", "Wire"}

\* what decode_wire gives for each frame the device may write, undamaged
Decoded == [f \in ConnFrames \cup ObsFrames |-> decode_wire(encode(f))]

(* C33: every complete frame the splitter emits is handed to the caller by  *)
(* exactly one recv call (as an envelope or as that call's Wire error):     *)
(* none is dropped or returned twice, and frames still pending when the     *)
(* peer closes are returned before Disconnected is reported.                *)
C33_HandedOnce ==
    [][ LET before == FramesRead
            after  == FramesRead'
        IN  /\ Cardinality(after) - Cardinality(before)
                 = Len(k_pending') - Len(k_pending) + (IF Hands THEN 1 ELSE 0)
            /\ (Returns /\ k_ret'.kind = "Ok") =>
                  /\ Len(k_delivered') = Len(k_delivered) + 1
                  /\ LET env == k_delivered'[Len(k_delivered')] IN
                     /\ \E i \in after : Decoded[k_sent[i]] =
                                              [kind |-> "Ok", env |-> env]
                     /\ \A j \in 1..Len(k_delivered) : k_delivered[j] # env
            /\ (Returns /\ k_ret'.kind = "Disconnected") =>
                  /\ k_closed
                  /\ k_pending = <<>>
                  /\ k_pending' = <<>>
                  /\ before = 1..Len(k_sent)
      ]_vars

\* two frames arrived, one was returned as an envelope and one as a Wire
\* error, and the call after them reported Disconnected
C33_Witness ==
    /\ Len(k_sent) = 2
    /\ k_ret.kind = "Disconnected"
    /\ k_pc = "idle"
    /\ Len(k_delivered) = 1
    /\ k_pending = <<>>
    /\ FramesRead = {1, 2}

\* the peer has closed while a frame split from the last read is pending
C33_PendingAtClose ==
    /\ k_closed
    /\ k_pc = "idle"
    /\ Len(k_pending) = 1
    /\ k_sock = <<>>

---------------------------------------------------------------------------
(* conn.rs: a frame that fails to decode                                   *)

Elems(s) == {s[i] : i \in 1..Len(s)}

(* C34: a frame that fails RawFrame::parse or Message::decode makes that    *)
(* one recv call return ConnError::Wire and is consumed; the other pending  *)
(* frames and the splitter's partial buffer are unchanged, so the following *)
(* recv calls return the remaining frames.                                  *)
C34_WireErrorConsumesOne ==
    [][ /\ Hands =>
             LET r     == feed(k_buf, k_sock)
                 fresh == IF k_pc = "reading" THEN r.frames ELSE <<>>
                 avail == k_pending \o fresh
             IN  /\ \E b \in 1..Len(avail) :
                       /\ k_ret'.kind = decode_wire(avail[b]).kind
                       /\ Elems(k_pending') = Elems(avail) \ {avail[b]}
                       /\ Len(k_pending') = Len(avail) - 1
                 /\ k_buf' = IF k_pc = "reading" THEN r.buf ELSE k_buf
        /\ (k_pc = "idle" /\ k_pending # <<>>) => k_pc' = "idle"
      ]_vars

\* three frames came with one read; the first call returned an envelope,
\* the second one took a frame from pending and returned Wire, and the
\* third frame is still pending
C34_Witness ==
    /\ Len(k_sent) = 3
    /\ k_pc = "idle"
    /\ k_ret.kind = "Wire"
    /\ k_ret.read = "none"
    /\ Len(k_delivered) = 1
    /\ Len(k_pending) = 1
    /\ decode_wire(k_pending[1]).kind = "Ok"

\* the frame a read ended with failed to decode and the frame before it,
\* from the same read, is pending
C34_FromRead ==
    /\ k_pc = "idle"
    /\ k_ret.kind = "Wire"
    /\ k_ret.read = "data"
    /\ Len(k_pending) >= 1

---------------------------------------------------------------------------
(* seq.rs: a reply that comes after its exchange has given up              *)

\* env answers a calibration request of sync_avr whose wait ended in Timeout
GaveUpOn(env) ==
    /\ env.src = "Avr"
    /\ \/ env.msg = "CalDataResp" /\ q_cal.factory = "None"
       \/ env.msg = "CalParamResp" /\ q_cal.ifcal = "None"

(* C36: a reply to an exchange that has already given up is never taken as  *)
(* the reply to a later exchange: e.g. in sync_avr, a CalDataResp or        *)
(* CalParamResp that arrives after recv_skip_ack timed out is not returned  *)
(* by the following send_recv as the response to the next command.          *)
C36_NoLateReply ==
    [][ ( /\ q_fn = "sync_avr"
          /\ q_pc = "got"
          /\ CurStep.k = "send_recv"
          /\ q_got.kind = "Ok"
          /\ GaveUpOn(q_got.env) ) =>
            /\ q_pc' = "loop"
            /\ q_ret' = q_ret
            /\ q_result' = q_result
      ]_vars

\* sync_avr failed with Protocol in the exchange of AvrConfigQuery: the
\* envelope send_recv returned is the CalParamResp whose wait had timed out
C36_LateReplyTaken ==
    /\ q_fn = "sync_avr"
    /\ q_pc = "done"
    /\ q_result = "Protocol"
    /\ CurStep = SendRecvStep(Cmd("AvrConfigQuery", 0), "Avr", "AvrConfigResp")
    /\ q_cal.ifcal = "None"
    /\ q_ret = Env("Avr", "CalParamResp", {})

---------------------------------------------------------------------------
(* seq.rs: the ARMED text and the PI status exchange of arm                *)

(* C37: if the device answers each of arm's three exchanges in time and     *)
(* emits one Text containing "ARMED" at any moment after it has acked       *)
(* AvrConfigCmd{arm=true}, arm eventually returns Ok - also when that ARMED *)
(* text is delivered before the PI status reply, i.e. while send_recv is    *)
(* waiting on the PI bus.  (All three exchanges have succeeded when arm is  *)
(* in wait_for_armed; with the text delivered, arm does not end there with  *)
(* Timeout.)                                                                *)
C37_ArmedNotLost ==
    ( /\ q_fn = "arm"
      /\ q_step = 4
      /\ q_pc = "done"
      /\ q_armed ) => q_result # "Timeout"

\* the ARMED text came while send_recv waited for the PI status and was
\* skipped; the PI status came, and wait_for_armed ran into its deadline
\* without a recv_timeout call that overran
C37_ArmedLost ==
    /\ q_fn = "arm"
    /\ q_step = 4
    /\ q_pc = "done"
    /\ q_armed
    /\ q_result = "Timeout"
    /\ ~q_overran
    /\ q_ret = NoEnv
    /\ Len(q_sent) = 3

\* the ARMED text came in wait_for_armed and arm returned Ok
C37_ArmedInWait ==
    /\ q_fn = "arm"
    /\ q_pc = "done"
    /\ q_armed
    /\ q_result = "Ok"

---------------------------------------------------------------------------
(* frame.rs, protocol/mod.rs: what parse and decode return on any input    *)

WireErrorKinds ==
    {"FrameTooShort", "MissingStart", "MissingEnd", "InvalidEscape",
     "ChecksumMismatch", "UnknownBusAddr"}

(* C40: RawFrame::parse is total: for every byte string handed to it, it    *)
(* returns Ok or a WireError.                                               *)
C40_ParseTotal ==
    (fr_wire # <<>> /\ c_pc \notin {"start", "encoded"}) =>
      \/ fr_out.ok
      \/ fr_out.err \in WireErrorKinds

\* parse was handed wire bytes whose interior sum passes 65535 and returned
\* neither a frame nor a WireError
C40_ParsePanicked ==
    /\ c_pc = "panicked"
    /\ fr_wire # <<>>
    /\ SumBytes(StuffedData(fr_in)) > 65535
    /\ fr_out = Panicked

\* Message::decode returns a message or a WireError for every payload length
C40_DecodeTotal ==
    m_pc = "decoded" =>
      \/ m_out.ok
      \/ m_out.err \in {"PayloadTooShort", "UnexpectedLength"}

\* decode was handed an empty payload and returned one of the two
C40_DecodeEmpty ==
    /\ m_pc = "decoded"
    /\ m_frame.payload = <<>>
    /\ ~m_out.ok
    /\ m_out.err = "PayloadTooShort"

===========================================================================
